---------------------------- MODULE Spec2Model ----------------------------
(***************************************************************************)
(* A model of the character systems of db-path-to-power: BaseStats,        *)
(* Attributes, Resources, DerivedStats, CombatStats, Resistances and the   *)
(* Character facade that wires them.                                       *)
(*                                                                         *)
(* Numbers.  JavaScript numbers that are fractions in the source (the      *)
(* potential, the resistances, the combat stats) are modelled as exact     *)
(* rationals <<n, d>> in lowest terms with d > 0; numbers that are         *)
(* integers whenever the inputs are integers (stats, level, xp, resource   *)
(* pools, floor()-ed values) are modelled as integers.                     *)
(*                                                                         *)
(* Program state.  `Cur' gathers the six component objects of a Character  *)
(* in one record, so that each method of the source is an operator from    *)
(* such a record to the record after the call (and the value returned).    *)
(***************************************************************************)
EXTENDS Integers, Sequences, FiniteSets, TLC

VARIABLES
    baseStats,     \* CharacterBaseStats: the nine stat fields
    attributes,    \* CharacterAttributes: level, xp, ..., baseStats link
    resources,     \* CharacterResources: maxima, current values, fatigue
    derivedStats,  \* CharacterDerivedStats: _basePL, _effectivePL, ...
    combatStats,   \* CharacterCombatStats: _accuracy, ..., _critTiers
    resistances,   \* CharacterResistances: _physicalResist, ...
    calls,         \* the methods of other components the last call invoked, in order
    last,          \* the last call made by the environment: op, arguments, return
    steps          \* number of calls made so far

vars == <<baseStats, attributes, resources, derivedStats, combatStats,
          resistances, calls, last, steps>>

-----------------------------------------------------------------------------
(* Bounds of the model *)

\* The environment makes at most MaxSteps calls in a behaviour.
MaxSteps == 2

\* The loop of addXP, taken one iteration at a time, is followed up to this level.
MaxLevel == 8

-----------------------------------------------------------------------------
(* Exact rational arithmetic *)

Abs(x) == IF x < 0 THEN -x ELSE x

Min(a, b) == IF a <= b THEN a ELSE b

Max(a, b) == IF a >= b THEN a ELSE b

RECURSIVE GCD(_, _)
GCD(a, b) == IF b = 0 THEN a ELSE GCD(b, a % b)

\* floor(n / d) for d > 0 (TLA+'s \div already rounds towards minus infinity)
FloorDiv(n, d) == n \div d

\* ceil(n / d) for d > 0
CeilDiv(n, d) == -((-n) \div d)

\* The rational n/d (d # 0) in lowest terms with a positive denominator.
Rat(n, d) ==
    LET g == GCD(Abs(n), Abs(d))
        s == IF d < 0 THEN -1 ELSE 1
    IN  <<(s * n) \div g, (s * d) \div g>>

RInt(n) == <<n, 1>>

RAdd(x, y) ==
    LET g == GCD(x[2], y[2])
    IN  Rat(x[1] * (y[2] \div g) + y[1] * (x[2] \div g), (x[2] \div g) * y[2])

RNeg(x) == <<-x[1], x[2]>>

RSub(x, y) == RAdd(x, RNeg(y))

RMul(x, y) ==
    LET g1 == GCD(Abs(x[1]), y[2])
        g2 == GCD(Abs(y[1]), x[2])
    IN  Rat((x[1] \div g1) * (y[1] \div g2), (x[2] \div g2) * (y[2] \div g1))

\* x / y for y # 0
RDiv(x, y) == RMul(x, Rat(y[2], y[1]))

\* the sign of a/b - c/d for b, d > 0, by the integer parts and then the
\* reciprocals of the fractional parts: no product leaves the 32 bits of
\* the checker's integers
RECURSIVE RCompare(_, _, _, _)
RCompare(a, b, c, d) ==
    LET qa == FloorDiv(a, b)
        qc == FloorDiv(c, d)
        ra == a - qa * b
        rc == c - qc * d
    IN  IF qa < qc THEN -1
        ELSE IF qa > qc THEN 1
        ELSE IF ra = 0 /\ rc = 0 THEN 0
        ELSE IF ra = 0 THEN -1
        ELSE IF rc = 0 THEN 1
        ELSE RCompare(d, rc, b, ra)

RLe(x, y) == RCompare(x[1], x[2], y[1], y[2]) <= 0

RLt(x, y) == RCompare(x[1], x[2], y[1], y[2]) < 0

RMin(x, y) == IF RLe(x, y) THEN x ELSE y

RMax(x, y) == IF RLe(y, x) THEN x ELSE y

\* Math.floor
RFloor(x) == FloorDiv(x[1], x[2])

\* Math.ceil
RCeil(x) == CeilDiv(x[1], x[2])

\* Math.round: the nearest integer, a tie going towards plus infinity
RRound(x) == FloorDiv(2 * x[1] + x[2], 2 * x[2])

-----------------------------------------------------------------------------
(* Binary64 arithmetic: a finite number x >= 0 of the IEEE 754 double format
   is the natural number x * 2^64, written as its sequence of digits in base
   2^14, the lowest first and the highest not 0. Every double that is 0 or at
   least 2^-11 has this form, and the numbers of rollCriticalHit are 0 or at
   least 1/150. *)

RECURSIVE LimbsOf(_)
LimbsOf(n) == IF n = 0 THEN <<>> ELSE <<n % 16384>> \o LimbsOf(n \div 16384)

RECURSIVE LimbsTrim(_)
LimbsTrim(ds) ==
    IF ds # <<>> /\ ds[Len(ds)] = 0 THEN LimbsTrim(SubSeq(ds, 1, Len(ds) - 1)) ELSE ds

LimbAt(ds, i) == IF i <= Len(ds) THEN ds[i] ELSE 0

RECURSIVE LimbsAdd(_, _, _, _)
LimbsAdd(a, b, i, carry) ==
    IF i > Len(a) /\ i > Len(b) THEN LimbsOf(carry)
    ELSE LET t == LimbAt(a, i) + LimbAt(b, i) + carry
         IN  <<t % 16384>> \o LimbsAdd(a, b, i + 1, t \div 16384)

\* a - b for a >= b, before the high zeros are dropped
RECURSIVE LimbsSub(_, _, _, _)
LimbsSub(a, b, i, borrow) ==
    IF i > Len(a) THEN <<>>
    ELSE LET t == 16384 + LimbAt(a, i) - LimbAt(b, i) - borrow
         IN  <<t % 16384>> \o LimbsSub(a, b, i + 1, IF t < 16384 THEN 1 ELSE 0)

RECURSIVE LimbsCompareFrom(_, _, _)
LimbsCompareFrom(a, b, i) ==
    IF i = 0 THEN 0
    ELSE IF a[i] < b[i] THEN -1
    ELSE IF a[i] > b[i] THEN 1
    ELSE LimbsCompareFrom(a, b, i - 1)

\* the sign of a - b
LimbsCompare(a, b) ==
    IF Len(a) < Len(b) THEN -1
    ELSE IF Len(a) > Len(b) THEN 1
    ELSE LimbsCompareFrom(a, b, Len(a))

\* ds * m + carry for a factor m of at most 2^16
RECURSIVE LimbsTimes(_, _, _, _)
LimbsTimes(ds, m, i, carry) ==
    IF i > Len(ds) THEN LimbsOf(carry)
    ELSE LET t == ds[i] * m + carry
         IN  <<t % 16384>> \o LimbsTimes(ds, m, i + 1, t \div 16384)

\* the quotient and the remainder of ds by a divisor d of at most 2^16
RECURSIVE LimbsQuotient(_, _, _, _)
LimbsQuotient(ds, d, i, rem) ==
    IF i = 0 THEN <<>>
    ELSE LET t == rem * 16384 + ds[i]
         IN  LimbsQuotient(ds, d, i - 1, t % d) \o <<t \div d>>

RECURSIVE LimbsRemainder(_, _, _, _)
LimbsRemainder(ds, d, i, rem) ==
    IF i = 0 THEN rem ELSE LimbsRemainder(ds, d, i - 1, (rem * 16384 + ds[i]) % d)

RECURSIVE PowerOfTwo(_)
PowerOfTwo(k) == IF k = 0 THEN 1 ELSE 2 * PowerOfTwo(k - 1)

\* ds * 2^k
ShiftLeft(ds, k) ==
    IF ds = <<>> THEN <<>>
    ELSE [i \in 1..(k \div 14) |-> 0] \o LimbsTimes(ds, PowerOfTwo(k % 14), 1, 0)

\* floor(ds / 2^k)
ShiftRight(ds, k) ==
    IF Len(ds) <= k \div 14 THEN <<>>
    ELSE LET high == SubSeq(ds, (k \div 14) + 1, Len(ds))
         IN  LimbsTrim(LimbsQuotient(high, PowerOfTwo(k % 14), Len(high), 0))

RECURSIVE BitsOf(_)
BitsOf(n) == IF n = 0 THEN 0 ELSE 1 + BitsOf(n \div 2)

\* the number of binary digits of ds
BitLength(ds) == IF ds = <<>> THEN 0 ELSE 14 * (Len(ds) - 1) + BitsOf(ds[Len(ds)])

\* the binary digit of ds of weight 2^i
BitAt(ds, i) == (LimbAt(ds, (i \div 14) + 1) \div PowerOfTwo(i % 14)) % 2

\* One digit of base 2^14 of the division of n by d, a binary digit at a
\* time from the highest: from the quotient q and the remainder r of the
\* digits above to those with the binary digits i - 1 down to stop. (The
\* tests of Len make the checker compute r3 and q3 before it goes on.)
RECURSIVE LimbsDivideBits(_, _, _, _, _, _)
LimbsDivideBits(n, d, i, stop, r, q) ==
    IF i = stop THEN [q |-> q, r |-> r]
    ELSE LET r2 == LimbsTimes(r, 2, 1, BitAt(n, i - 1))
             ge == LimbsCompare(r2, d) >= 0
             r3 == IF ge THEN LimbsTrim(LimbsSub(r2, d, 1, 0)) ELSE r2
             q3 == LimbsTimes(q, 2, 1, IF ge THEN 1 ELSE 0)
         IN  IF Len(r3) >= 0 /\ Len(q3) >= 0
             THEN LimbsDivideBits(n, d, i - 1, stop, r3, q3)
             ELSE [q |-> q3, r |-> r3]

\* the quotient q and the remainder r of n by d: the digits of n from the
\* l-th down, given the result s of the digits above
RECURSIVE LimbsDivide(_, _, _, _)
LimbsDivide(n, d, l, s) ==
    IF l = 0 THEN s
    ELSE LET s2 == LimbsDivideBits(n, d, 14 * l, 14 * (l - 1), s.r, s.q)
         IN  IF Len(s2.q) >= 0 THEN LimbsDivide(n, d, l - 1, s2) ELSE s2

\* Rounding to the format: the double nearest to a number whose floor (in
\* units of 2^-64) is n, `inexact' telling whether the number is above n; 53
\* binary digits are kept, a tie goes to the even one.
RoundToBinary64(n, inexact) ==
    LET k == BitLength(n) - 53
    IN  IF k <= 0 THEN n
        ELSE LET q   == ShiftRight(n, k)
                 low == LimbsTrim(LimbsSub(n, ShiftLeft(q, k), 1, 0))
                 c   == LimbsCompare(low, ShiftLeft(<<1>>, k - 1))
                 up  == c > 0 \/ (c = 0 /\ (inexact \/ BitAt(q, 0) = 1))
             IN  ShiftLeft(IF up THEN LimbsAdd(q, <<1>>, 1, 0) ELSE q, k)

\* the double written as the decimal literal p/q, and the quotient of the
\* whole numbers p and q
Binary64(p, q) ==
    LET n == ShiftLeft(LimbsOf(p), 64)
    IN  RoundToBinary64(LimbsTrim(LimbsQuotient(n, q, Len(n), 0)),
                        LimbsRemainder(n, q, Len(n), 0) # 0)

\* x + y, x - y (for x >= y) and x / y of doubles
Binary64Add(x, y) == RoundToBinary64(LimbsAdd(x, y, 1, 0), FALSE)

Binary64Sub(x, y) == RoundToBinary64(LimbsTrim(LimbsSub(x, y, 1, 0)), FALSE)

Binary64Div(x, y) ==
    LET n == ShiftLeft(x, 64)
        d == IF Len(n) >= 0 /\ Len(y) >= 0
             THEN LimbsDivide(n, y, Len(n), [q |-> <<>>, r |-> <<>>])
             ELSE [q |-> <<>>, r |-> <<>>]
    IN  RoundToBinary64(d.q, d.r # <<>>)

Binary64Le(x, y) == LimbsCompare(x, y) <= 0

Binary64Min(x, y) == IF Binary64Le(x, y) THEN x ELSE y

-----------------------------------------------------------------------------
(* JavaScript values returned by the methods *)

JSNumber(n) == [type |-> "number", val |-> n]

JSBoolean(b) == [type |-> "boolean", val |-> b]

JSUndefined == [type |-> "undefined", val |-> 0]

-----------------------------------------------------------------------------
(* BaseStats.js *)

StatKeys == {"hp", "ki", "sta", "str", "vit", "tec", "wis", "aura", "agi"}

\* new CharacterBaseStats(cfg): every field has its default
DefaultBaseStats ==
    [hp |-> 100, ki |-> 50, sta |-> 75, str |-> 10, vit |-> 10,
     tec |-> 10, wis |-> 10, aura |-> 10, agi |-> 10]

\* baseStats.getStat(statKey): 0 for a key that is no own property
getStat(bs, statKey) == IF statKey \in DOMAIN bs THEN bs[statKey] ELSE 0

\* baseStats.increaseStat(statKey, amount): the object after it and the return
increaseStat(bs, statKey, amount) ==
    IF statKey \notin StatKeys THEN [bs |-> bs, ret |-> FALSE]
    ELSE IF amount <= 0 THEN [bs |-> bs, ret |-> FALSE]
    ELSE [bs |-> [bs EXCEPT ![statKey] = @ + amount], ret |-> TRUE]

\* one entry of setStats' loop: a recognised key with a number >= 0 overwrites
setStat(bs, statsObject, k) ==
    IF k \in DOMAIN statsObject /\ k \in StatKeys /\ statsObject[k] >= 0
    THEN statsObject[k] ELSE bs[k]

\* baseStats.setStats(statsObject): statsObject maps some keys to integers
setStats(bs, statsObject) ==
    [hp   |-> setStat(bs, statsObject, "hp"),
     ki   |-> setStat(bs, statsObject, "ki"),
     sta  |-> setStat(bs, statsObject, "sta"),
     str  |-> setStat(bs, statsObject, "str"),
     vit  |-> setStat(bs, statsObject, "vit"),
     tec  |-> setStat(bs, statsObject, "tec"),
     wis  |-> setStat(bs, statsObject, "wis"),
     aura |-> setStat(bs, statsObject, "aura"),
     agi  |-> setStat(bs, statsObject, "agi")]

-----------------------------------------------------------------------------
(* Attributes.js *)

\* CharacterAttributes.levelUp
Attributes_levelUp(at) ==
    [at EXCEPT !.level = @ + 1,
               !.unallocatedStatPoints = @ + 5,
               !.skillPoints = @ + 1,
               !.xpToNextLevel = FloorDiv(@ * 6, 5)]

\* addXP's loop as an if: one level-up at most
addXPLoop_Once(at) ==
    IF at.xp >= at.xpToNextLevel
    THEN Attributes_levelUp([at EXCEPT !.xp = @ - at.xpToNextLevel])
    ELSE at

\* the while loop of addXP: a level-up for every threshold the xp pays for
RECURSIVE addXPLoop(_)
addXPLoop(at) ==
    IF at.xp >= at.xpToNextLevel
    THEN addXPLoop(Attributes_levelUp([at EXCEPT !.xp = @ - at.xpToNextLevel]))
    ELSE at

\* CharacterAttributes.addXP
addXP(at, amount) == addXPLoop([at EXCEPT !.xp = @ + amount])

\* allocateStatPoint spending the point before the key is checked
Attributes_allocateStatPoint_SpendFirst(at, bs, statKey) ==
    IF at.unallocatedStatPoints <= 0 \/ ~at.linked
    THEN [at |-> at, bs |-> bs, ret |-> FALSE, called |-> FALSE]
    ELSE LET r == increaseStat(bs, statKey, 1)
         IN  [at |-> [at EXCEPT !.unallocatedStatPoints = @ - 1],
              bs |-> r.bs, ret |-> r.ret, called |-> TRUE]

\* allocateStatPoint with < 0 for <= 0 in the test of line 96
Attributes_allocateStatPoint_OffByOne(at, bs, statKey) ==
    IF at.unallocatedStatPoints < 0 \/ ~at.linked \/ statKey \notin StatKeys
    THEN [at |-> at, bs |-> bs, ret |-> FALSE, called |-> FALSE]
    ELSE [at |-> [at EXCEPT !.unallocatedStatPoints = @ - 1],
          bs |-> increaseStat(bs, statKey, 1).bs, ret |-> TRUE, called |-> TRUE]

\* CharacterAttributes.allocateStatPoint on the attributes `at' linked (or
\* not: at.linked) to the base stats `bs': both objects after it, the return,
\* and whether baseStats.increaseStat was called
Attributes_allocateStatPoint(at, bs, statKey) ==
    IF at.unallocatedStatPoints <= 0
    THEN [at |-> at, bs |-> bs, ret |-> FALSE, called |-> FALSE]
    ELSE IF ~at.linked
    THEN [at |-> at, bs |-> bs, ret |-> FALSE, called |-> FALSE]
    ELSE IF statKey \notin StatKeys
    THEN [at |-> at, bs |-> bs, ret |-> FALSE, called |-> FALSE]
    ELSE LET r == increaseStat(bs, statKey, 1)
         IN  IF r.ret
             THEN [at |-> [at EXCEPT !.unallocatedStatPoints = @ - 1],
                   bs |-> r.bs, ret |-> TRUE, called |-> TRUE]
             ELSE [at |-> at, bs |-> r.bs, ret |-> FALSE, called |-> TRUE]

\* CharacterAttributes.useSkillPoint
useSkillPoint(at) ==
    IF at.skillPoints > 0
    THEN [at |-> [at EXCEPT !.skillPoints = @ - 1], ret |-> TRUE]
    ELSE [at |-> at, ret |-> FALSE]

\* CharacterAttributes.increasePotential; amount is a rational
increasePotential(at, amount) ==
    [at EXCEPT !.potential = RMin(RAdd(@, amount), at.potentialCap)]


(* addXP one statement at a time, on an xp and a threshold that are any
   numbers, here exact fractions <<n, d>> *)

\* line 65: this.xp += amount
addXPAdd(at, amount) == [at EXCEPT !.xp = RAdd(@, amount)]

\* the test of the while loop, line 68
addXPTest(at) == RLe(at.xpToNextLevel, at.xp)

\* levelUp on a threshold that is any number: Math.floor(xpToNextLevel * 1.2)
levelUpStep(at) ==
    [at EXCEPT !.level = @ + 1,
               !.unallocatedStatPoints = @ + 5,
               !.skillPoints = @ + 1,
               !.xpToNextLevel = RInt(RFloor(RMul(@, Rat(12, 10))))]

\* the body of the while loop, lines 69-70
addXPBody(at) == levelUpStep([at EXCEPT !.xp = RSub(@, at.xpToNextLevel)])

-----------------------------------------------------------------------------
(* Resources.js *)

\* CharacterResources.calculateMaxValues
calculateMaxValues(res, at, bs) ==
    [res EXCEPT
        !.maxHealth  = getStat(bs, "hp") + at.level * 10 + getStat(bs, "vit") * 5,
        !.maxKi      = getStat(bs, "ki") + at.level * 5 + getStat(bs, "wis") * 3
                         + getStat(bs, "aura") * 2,
        !.maxStamina = getStat(bs, "sta") + at.level * 5 + getStat(bs, "vit") * 2
                         + getStat(bs, "agi") * 3]

\* CharacterResources.setToMax
setToMax(res) ==
    [res EXCEPT !.health = res.maxHealth, !.ki = res.maxKi,
                !.stamina = res.maxStamina]

\* new CharacterResources(attributes, baseStats)
NewResources(at, bs) ==
    setToMax(calculateMaxValues(
        [maxHealth |-> 0, maxKi |-> 0, maxStamina |-> 0,
         health |-> 0, ki |-> 0, stamina |-> 0, fatigue |-> 0], at, bs))

\* _modifyResource without the clamp of line 74
modifyResource_NoClamp(res, key, amount, min, max) ==
    IF key \notin DOMAIN res THEN res
    ELSE [res EXCEPT ![key] = res[key] + amount]

\* CharacterResources._modifyResource(key, amount, min, max)
modifyResource(res, key, amount, min, max) ==
    IF key \notin DOMAIN res THEN res
    ELSE [res EXCEPT ![key] = Max(min, Min(res[key] + amount, max))]

maxFatigue == 100

\* CharacterResources.takeDamage
Resources_takeDamage(res, amount) ==
    IF amount <= 0 THEN [res |-> res, ret |-> JSNumber(res.health)]
    ELSE LET r == modifyResource(res, "health", -amount, 0, res.maxHealth)
         IN  [res |-> r, ret |-> JSNumber(r.health)]

\* restoreHealth without the `amount <= 0' return of line 91
restoreHealth_NoGuard(res, amount) ==
    LET r == modifyResource(res, "health", amount, 0, res.maxHealth)
    IN  [res |-> r, ret |-> JSNumber(r.health)]

\* CharacterResources.restoreHealth
restoreHealth(res, amount) ==
    IF amount <= 0 THEN [res |-> res, ret |-> JSNumber(res.health)]
    ELSE LET r == modifyResource(res, "health", amount, 0, res.maxHealth)
         IN  [res |-> r, ret |-> JSNumber(r.health)]

\* useKi without the test of line 99
useKi_NoCheck(res, amount) ==
    IF amount <= 0 THEN [res |-> res, ret |-> JSNumber(res.ki)]
    ELSE [res |-> modifyResource(res, "ki", -amount, 0, res.maxKi),
          ret |-> JSBoolean(TRUE)]

\* CharacterResources.useKi
useKi(res, amount) ==
    IF amount <= 0 THEN [res |-> res, ret |-> JSNumber(res.ki)]
    ELSE IF res.ki < amount THEN [res |-> res, ret |-> JSBoolean(FALSE)]
    ELSE [res |-> modifyResource(res, "ki", -amount, 0, res.maxKi),
          ret |-> JSBoolean(TRUE)]

\* CharacterResources.restoreKi
restoreKi(res, amount) ==
    IF amount <= 0 THEN [res |-> res, ret |-> JSNumber(res.ki)]
    ELSE LET r == modifyResource(res, "ki", amount, 0, res.maxKi)
         IN  [res |-> r, ret |-> JSNumber(r.ki)]

\* CharacterResources.addFatigue
addFatigue(res, amount) ==
    IF amount <= 0 THEN [res |-> res, ret |-> JSNumber(res.fatigue)]
    ELSE LET r == modifyResource(res, "fatigue", amount, 0, maxFatigue)
         IN  [res |-> r, ret |-> JSNumber(r.fatigue)]

\* CharacterResources.reduceFatigue
reduceFatigue(res, amount) ==
    IF amount <= 0 THEN [res |-> res, ret |-> JSNumber(res.fatigue)]
    ELSE LET r == modifyResource(res, "fatigue", -amount, 0, maxFatigue)
         IN  [res |-> r, ret |-> JSNumber(r.fatigue)]

\* useStamina with Math.floor for Math.ceil in the fatigue of line 124
useStamina_FloorFatigue(res, amount) ==
    IF amount <= 0 THEN [res |-> res, ret |-> JSNumber(res.stamina)]
    ELSE IF res.stamina < amount THEN [res |-> res, ret |-> JSBoolean(FALSE)]
    ELSE LET r == modifyResource(res, "stamina", -amount, 0, res.maxStamina)
         IN  [res |-> addFatigue(r, FloorDiv(amount, 10)).res,
              ret |-> JSBoolean(TRUE)]

\* CharacterResources.useStamina
useStamina(res, amount) ==
    IF amount <= 0 THEN [res |-> res, ret |-> JSNumber(res.stamina)]
    ELSE IF res.stamina < amount THEN [res |-> res, ret |-> JSBoolean(FALSE)]
    ELSE LET r == modifyResource(res, "stamina", -amount, 0, res.maxStamina)
         IN  [res |-> addFatigue(r, CeilDiv(amount, 10)).res,
              ret |-> JSBoolean(TRUE)]

\* CharacterResources.recoverStamina
recoverStamina(res, amount) ==
    IF amount <= 0 THEN [res |-> res, ret |-> JSNumber(res.stamina)]
    ELSE LET r == modifyResource(res, "stamina", amount, 0, res.maxStamina)
         IN  [res |-> r, ret |-> JSNumber(r.stamina)]

\* handleStatChange refilling the pools to the new maxima
Resources_handleStatChange_Refill(res, at, bs) ==
    setToMax(calculateMaxValues(res, at, bs))

\* handleStatChange capping the pools before it recalculates the maxima
Resources_handleStatChange_CapFirst(res, at, bs) ==
    calculateMaxValues([res EXCEPT !.health  = Min(res.health, res.maxHealth),
                                   !.ki      = Min(res.ki, res.maxKi),
                                   !.stamina = Min(res.stamina, res.maxStamina)],
                       at, bs)

\* CharacterResources.handleStatChange
Resources_handleStatChange(res, at, bs) ==
    LET r == calculateMaxValues(res, at, bs)
    IN  [r EXCEPT !.health  = Min(r.health, r.maxHealth),
                  !.ki      = Min(r.ki, r.maxKi),
                  !.stamina = Min(r.stamina, r.maxStamina)]

-----------------------------------------------------------------------------
(* DerivedStats.js *)

\* CharacterDerivedStats.calculateBasePL: floor(rawPL * potential), where
\* rawPL = STR*1.8 + VIT*0.5 + TEC*1.5 + WIS*0.3 + AURA*0.4 + AGI*1.0
calculateBasePL(der, at, bs) ==
    LET rawPL == Rat(getStat(bs, "str") * 18 + getStat(bs, "vit") * 5
                       + getStat(bs, "tec") * 15 + getStat(bs, "wis") * 3
                       + getStat(bs, "aura") * 4 + getStat(bs, "agi") * 10, 10)
    IN  [der EXCEPT !.basePL = RFloor(RMul(rawPL, at.potential))]

\* current / max, defined as 0 when max is not positive
Percent(current, max) == IF max > 0 THEN Rat(current, max) ELSE RInt(0)

\* The factors of calculateEffectivePL's modifier, each a rational:
\* (0.5 + healthPercent * 0.5), (0.8 + kiPercent * 0.2),
\* (0.7 + staminaPercent * 0.3) and (1.0 - fatigue / 200)
modifierFactors(res) ==
    LET healthPercent  == Percent(res.health, res.maxHealth)
        kiPercent      == Percent(res.ki, res.maxKi)
        staminaPercent == Percent(res.stamina, res.maxStamina)
    IN  << RAdd(Rat(1, 2), RMul(healthPercent, Rat(1, 2))),
           RAdd(Rat(4, 5), RMul(kiPercent, Rat(1, 5))),
           RAdd(Rat(7, 10), RMul(staminaPercent, Rat(3, 10))),
           RSub(RInt(1), Rat(res.fatigue, 200)) >>

\* floor(n * f[1] * ... * f[Len(f)]) for an integer n >= 0 and rationals
\* f[i] >= 0, computed on natural numbers of any size (sequences of digits
\* in base 10000, the lowest first): the product of the numerators, then one
\* floor division per denominator (floor(floor(x / a) / b) = floor(x / (a * b))).
RECURSIVE DigitsOf(_)
DigitsOf(n) == IF n = 0 THEN <<>> ELSE <<n % 10000>> \o DigitsOf(n \div 10000)

RECURSIVE DigitsTimes(_, _, _)
DigitsTimes(ds, m, carry) ==
    IF ds = <<>> THEN DigitsOf(carry)
    ELSE LET t == Head(ds) * m + carry
         IN  <<t % 10000>> \o DigitsTimes(Tail(ds), m, t \div 10000)

RECURSIVE DigitsDiv(_, _, _, _)
DigitsDiv(ds, d, i, rem) ==
    IF i = 0 THEN <<>>
    ELSE LET t == rem * 10000 + ds[i]
         IN  DigitsDiv(ds, d, i - 1, t % d) \o <<t \div d>>

RECURSIVE DigitsValue(_)
DigitsValue(ds) ==
    IF ds = <<>> THEN 0 ELSE Head(ds) + 10000 * DigitsValue(Tail(ds))

RECURSIVE TimesAll(_, _, _)
TimesAll(ds, f, i) ==
    IF i > Len(f) THEN ds ELSE TimesAll(DigitsTimes(ds, f[i][1], 0), f, i + 1)

RECURSIVE DivAll(_, _, _)
DivAll(ds, f, i) ==
    IF i > Len(f) THEN ds
    ELSE DivAll(DigitsDiv(ds, f[i][2], Len(ds), 0), f, i + 1)

FloorProduct(n, f) == DigitsValue(DivAll(TimesAll(DigitsOf(n), f, 1), f, 1))

\* CharacterDerivedStats.calculateEffectivePL:
\* max(0, floor(basePL * modifier)); the modifier is never negative while the
\* pools are in [0, max] and the fatigue is in [0, 100]
calculateEffectivePL(der, res) ==
    [der EXCEPT !.effectivePL =
        IF der.basePL <= 0 THEN 0
        ELSE Max(0, FloorProduct(der.basePL, modifierFactors(res)))]

\* CharacterDerivedStats.calculateMovementRange
calculateMovementRange(der, bs) ==
    [der EXCEPT !.movementRange = RFloor(RAdd(RInt(3), Rat(getStat(bs, "agi"), 10)))]

\* CharacterDerivedStats.calculateTurnOrder
calculateTurnOrder(der, bs) ==
    [der EXCEPT !.turnOrder =
        RFloor(RAdd(RInt(getStat(bs, "agi")), Rat(getStat(bs, "tec"), 2)))]

\* CharacterDerivedStats.updateAll
DerivedStats_updateAll(der, at, bs, res) ==
    calculateTurnOrder(
        calculateMovementRange(
            calculateEffectivePL(calculateBasePL(der, at, bs), res), bs), bs)

\* new CharacterDerivedStats(attributes, baseStats, resources)
NewDerivedStats(at, bs, res) ==
    DerivedStats_updateAll(
        [basePL |-> 0, effectivePL |-> 0, movementRange |-> 0, turnOrder |-> 0],
        at, bs, res)

\* CharacterDerivedStats.handleStatChange
DerivedStats_handleStatChange(der, at, bs, res) ==
    DerivedStats_updateAll(der, at, bs, res)

\* CharacterDerivedStats.handleResourceChange
handleResourceChange(der, res) == calculateEffectivePL(der, res)

-----------------------------------------------------------------------------
(* CombatStats.js *)

CritTierNames == {"normal", "regular", "super", "mega", "omega"}

\* the diminishing-returns curve (stat / (stat + k)) * capBonus
Bonus(stat, k, capBonus) == RMul(Rat(stat, stat + k), capBonus)

\* this._critTiers as the constructor sets it
InitialCritTiers ==
    [normal  |-> [threshold |-> RInt(0), physMultiplier |-> RInt(1),
                  energyMultiplier |-> RInt(1), defenseIgnore |-> RInt(0),
                  guaranteedKnockback |-> FALSE],
     regular |-> [threshold |-> RInt(1), physMultiplier |-> RInt(0),
                  energyMultiplier |-> RInt(0), defenseIgnore |-> RInt(0),
                  guaranteedKnockback |-> FALSE],
     super   |-> [threshold |-> Rat(101, 100), physMultiplier |-> RInt(0),
                  energyMultiplier |-> RInt(0), defenseIgnore |-> Rat(1, 4),
                  guaranteedKnockback |-> FALSE],
     mega    |-> [threshold |-> Rat(201, 100), physMultiplier |-> RInt(0),
                  energyMultiplier |-> RInt(0), defenseIgnore |-> Rat(1, 4),
                  guaranteedKnockback |-> FALSE],
     omega   |-> [threshold |-> Rat(301, 100), physMultiplier |-> RInt(0),
                  energyMultiplier |-> RInt(0), defenseIgnore |-> Rat(1, 2),
                  guaranteedKnockback |-> TRUE]]

\* CharacterCombatStats.calculateAccuracy
calculateAccuracy(cmb, bs) ==
    [cmb EXCEPT !.accuracy =
        RAdd(RAdd(RInt(50), Bonus(getStat(bs, "tec"), 60, RInt(50))),
             Bonus(getStat(bs, "agi"), 120, RInt(25)))]

\* CharacterCombatStats.calculateEvasion
calculateEvasion(cmb, bs) ==
    [cmb EXCEPT !.evasion =
        RAdd(RAdd(RInt(35), Bonus(getStat(bs, "agi"), 80, RInt(60))),
             Bonus(getStat(bs, "aura"), 150, RInt(20)))]

\* CharacterCombatStats.calculateCritChance: 0.05 + tec / 150, not capped
calculateCritChance(cmb, bs) ==
    [cmb EXCEPT !.critChance = RAdd(Rat(5, 100), Rat(getStat(bs, "tec"), 150))]

\* calculateCritDamage giving mega crits the multiplier of super crits
calculateCritDamage_FlatMega(cmb, bs) ==
    LET cd == RAdd(Rat(3, 2), Bonus(getStat(bs, "str"), 200, Rat(7, 2)))
    IN  [cmb EXCEPT !.critDamage = cd,
                    !.critTiers.normal.physMultiplier  = RInt(1),
                    !.critTiers.regular.physMultiplier = cd,
                    !.critTiers.super.physMultiplier   = cd,
                    !.critTiers.mega.physMultiplier    = cd,
                    !.critTiers.omega.physMultiplier   = RMul(cd, RInt(2))]

\* CharacterCombatStats.calculateCritDamage
calculateCritDamage(cmb, bs) ==
    LET cd == RAdd(Rat(3, 2), Bonus(getStat(bs, "str"), 200, Rat(7, 2)))
    IN  [cmb EXCEPT !.critDamage = cd,
                    !.critTiers.normal.physMultiplier  = RInt(1),
                    !.critTiers.regular.physMultiplier = cd,
                    !.critTiers.super.physMultiplier   = cd,
                    !.critTiers.mega.physMultiplier    = RMul(cd, Rat(3, 2)),
                    !.critTiers.omega.physMultiplier   = RMul(cd, RInt(2))]

\* CharacterCombatStats.calculateEnergyCritDamage
calculateEnergyCritDamage(cmb, bs) ==
    LET cd == RAdd(Rat(3, 2), Bonus(getStat(bs, "tec"), 200, Rat(7, 2)))
    IN  [cmb EXCEPT !.energyCritDamage = cd,
                    !.critTiers.normal.energyMultiplier  = RInt(1),
                    !.critTiers.regular.energyMultiplier = cd,
                    !.critTiers.super.energyMultiplier   = cd,
                    !.critTiers.mega.energyMultiplier    = RMul(cd, Rat(3, 2)),
                    !.critTiers.omega.energyMultiplier   = RMul(cd, RInt(2))]

\* CharacterCombatStats.calculateKnockback
calculateKnockback(cmb, bs) ==
    [cmb EXCEPT !.knockback =
        RFloor(RAdd(RInt(3), Bonus(getStat(bs, "str"), 50, RInt(12))))]

\* CharacterCombatStats.calculatePursuit
calculatePursuit(cmb, bs) ==
    [cmb EXCEPT !.pursuit =
        RFloor(RAdd(RAdd(RInt(5), Bonus(getStat(bs, "agi"), 75, RInt(30))),
                    Bonus(getStat(bs, "tec"), 150, RInt(15))))]

\* updateAll without the call of calculateEnergyCritDamage
CombatStats_updateAll_NoEnergy(cmb, bs) ==
    calculatePursuit(
      calculateKnockback(
        calculateCritDamage(
          calculateCritChance(
            calculateEvasion(
              calculateAccuracy(cmb, bs), bs), bs), bs), bs), bs)

\* CharacterCombatStats.updateAll
CombatStats_updateAll(cmb, bs) ==
    calculatePursuit(
      calculateKnockback(
        calculateEnergyCritDamage(
          calculateCritDamage(
            calculateCritChance(
              calculateEvasion(
                calculateAccuracy(cmb, bs), bs), bs), bs), bs), bs), bs)

\* new CharacterCombatStats(attributes, baseStats, derivedStats)
NewCombatStats(bs) ==
    CombatStats_updateAll(
        [accuracy |-> RInt(0), evasion |-> RInt(0), critChance |-> RInt(0),
         critDamage |-> RInt(0), energyCritDamage |-> RInt(0),
         critTiers |-> InitialCritTiers, knockback |-> 0, pursuit |-> 0], bs)

\* CharacterCombatStats.handleStatChange
CombatStats_handleStatChange(cmb, bs) == CombatStats_updateAll(cmb, bs)

\* get effectiveCritChance
effectiveCritChance(cmb) == RMin(cmb.critChance, RInt(1))

\* canSuperCrit, canMegaCrit, canOmegaCrit with > for >=
tierReachable_Strict(cmb, tier) == RLt(cmb.critTiers[tier].threshold, cmb.critChance)

\* One tier check of rollCriticalHit, for the tier `tier' above the tier
\* `lower': whether it is made at all, and whether the draw r passes it.
tierReachable(cmb, tier) == RLe(cmb.critTiers[tier].threshold, cmb.critChance)

tierChance(cmb, tier, lower) ==
    RDiv(RAdd(RSub(cmb.critChance, cmb.critTiers[tier].threshold), Rat(1, 100)),
         RSub(cmb.critTiers[tier].threshold, cmb.critTiers[lower].threshold))

tierPasses(cmb, tier, lower, r) == RLe(r, RMin(tierChance(cmb, tier, lower), RInt(1)))

\* String.prototype.toLowerCase on the names the accessors are called with
toLowerCase(s) ==
    CASE s = "OMEGA" -> "omega"
      [] s = "ENERGY" -> "energy"
      [] OTHER -> s

\* properties every object literal inherits from Object.prototype
ObjectPrototypeKeys == {"constructor", "toString"}

\* this._critTiers[tierKey]: an own tier, a property inherited from
\* Object.prototype (an object or function, truthy, without the fields of a
\* tier), or undefined
critTierLookup(cmb, tierKey) ==
    IF tierKey \in DOMAIN cmb.critTiers THEN "tier"
    ELSE IF tierKey \in ObjectPrototypeKeys THEN "inherited"
    ELSE "undefined"

\* CharacterCombatStats.getCritMultiplier
getCritMultiplier(cmb, tier, damageType) ==
    LET tierKey == toLowerCase(tier)
        found == critTierLookup(cmb, tierKey)
    IN  IF found = "undefined" THEN JSNumber(RInt(1))
        ELSE IF found = "inherited" THEN JSUndefined
        ELSE IF toLowerCase(damageType) = "energy"
             THEN JSNumber(cmb.critTiers[tierKey].energyMultiplier)
             ELSE JSNumber(cmb.critTiers[tierKey].physMultiplier)

\* CharacterCombatStats.getCritDefenseIgnore
getCritDefenseIgnore(cmb, tier) ==
    LET tierKey == toLowerCase(tier)
        found == critTierLookup(cmb, tierKey)
    IN  IF found = "undefined" THEN JSNumber(RInt(0))
        ELSE IF found = "inherited" THEN JSUndefined
        ELSE JSNumber(cmb.critTiers[tierKey].defenseIgnore)

\* CharacterCombatStats.getCritKnockback
getCritKnockback(cmb, tier) ==
    LET tierKey == toLowerCase(tier)
        found == critTierLookup(cmb, tierKey)
    IN  IF found = "undefined" THEN JSBoolean(FALSE)
        ELSE IF found = "inherited" THEN JSUndefined
        ELSE JSBoolean(cmb.critTiers[tierKey].guaranteedKnockback)

\* the first test with >= for >
noCriticalHit_AtLeast(cmb, r1) == RLe(RMin(cmb.critChance, RInt(1)), r1)

\* the first test of rollCriticalHit: the roll r1 gives no critical hit
noCriticalHit(cmb, r1) == RLt(RMin(cmb.critChance, RInt(1)), r1)

\* the tier checks where a failed omega check ends the cascade
criticalTier_NoFallThrough(cmb, draws) ==
    IF tierReachable(cmb, "omega")
    THEN IF tierPasses(cmb, "omega", "mega", draws[2])
         THEN [tier |-> "omega", used |-> 2]
         ELSE [tier |-> "regular", used |-> 2]
    ELSE IF tierReachable(cmb, "mega")
    THEN IF tierPasses(cmb, "mega", "super", draws[2])
         THEN [tier |-> "mega", used |-> 2]
         ELSE [tier |-> "regular", used |-> 2]
    ELSE IF tierReachable(cmb, "super") /\ tierPasses(cmb, "super", "regular", draws[2])
    THEN [tier |-> "super", used |-> 2]
    ELSE [tier |-> "regular", used |-> IF tierReachable(cmb, "super") THEN 2 ELSE 1]

\* The tier checks of rollCriticalHit once a critical hit occurred, on the
\* sequence `draws' whose first element is the roll already made and whose
\* next elements are what the following calls of Math.random() return: the
\* tier returned and the number of draws consumed.
criticalTier(cmb, draws) ==
    LET o  == tierReachable(cmb, "omega")
        n1 == IF o THEN 2 ELSE 1
    IN IF o /\ tierPasses(cmb, "omega", "mega", draws[n1])
       THEN [tier |-> "omega", used |-> n1]
       ELSE
         LET m  == tierReachable(cmb, "mega")
             n2 == IF m THEN n1 + 1 ELSE n1
         IN IF m /\ tierPasses(cmb, "mega", "super", draws[n2])
            THEN [tier |-> "mega", used |-> n2]
            ELSE
              LET su == tierReachable(cmb, "super")
                  n3 == IF su THEN n2 + 1 ELSE n2
              IN IF su /\ tierPasses(cmb, "super", "regular", draws[n3])
                 THEN [tier |-> "super", used |-> n3]
                 ELSE [tier |-> "regular", used |-> n3]

\* CharacterCombatStats.rollCriticalHit
rollCriticalHit(cmb, draws) ==
    IF noCriticalHit(cmb, draws[1])
    THEN [tier |-> "normal", used |-> 1]
    ELSE criticalTier(cmb, draws)


(* rollCriticalHit in binary64, the arithmetic of JavaScript's numbers: the
   quotient of a tier check is rounded, and a draw next to 1 tells the
   rounded quotient from the exact one. *)

\* this._critChance as calculateCritChance computes it: 0.05 + tec / 150
critChance64(bs) == Binary64Add(Binary64(5, 100), Binary64(getStat(bs, "tec"), 150))

\* this._critTiers[tier].threshold, a decimal literal of the constructor
threshold64(cmb, tier) ==
    Binary64(cmb.critTiers[tier].threshold[1], cmb.critTiers[tier].threshold[2])

\* (critChance - threshold + 0.01) / (threshold - next lower threshold)
tierChance64(cc, cmb, tier, lower) ==
    Binary64Div(Binary64Add(Binary64Sub(cc, threshold64(cmb, tier)), Binary64(1, 100)),
                Binary64Sub(threshold64(cmb, tier), threshold64(cmb, lower)))

\* one tier check at the critical chance cc: whether it is made, and
\* Math.min(chance, 1.0), the number its draw is compared with
tierCheck64(cc, cmb, tier, lower) ==
    IF Binary64Le(threshold64(cmb, tier), cc)
    THEN [made |-> TRUE,
          chance |-> Binary64Min(tierChance64(cc, cmb, tier, lower), Binary64(1, 1))]
    ELSE [made |-> FALSE, chance |-> <<>>]

\* the three tier checks of rollCriticalHit
tierChecks64(cc, cmb) ==
    [omega |-> tierCheck64(cc, cmb, "omega", "mega"),
     mega  |-> tierCheck64(cc, cmb, "mega", "super"),
     super |-> tierCheck64(cc, cmb, "super", "regular")]

\* rollCriticalHit on the draws of Math.random(), given its critical chance
\* cc and its tier checks: the tier and the number of draws used
rollCriticalHit64(cc, checks, draws) ==
    IF ~Binary64Le(draws[1], Binary64Min(cc, Binary64(1, 1)))
    THEN [tier |-> "normal", used |-> 1]
    ELSE
      LET n1 == IF checks.omega.made THEN 2 ELSE 1
      IN IF checks.omega.made /\ Binary64Le(draws[n1], checks.omega.chance)
         THEN [tier |-> "omega", used |-> n1]
         ELSE
           LET n2 == IF checks.mega.made THEN n1 + 1 ELSE n1
           IN IF checks.mega.made /\ Binary64Le(draws[n2], checks.mega.chance)
              THEN [tier |-> "mega", used |-> n2]
              ELSE
                LET n3 == IF checks.super.made THEN n2 + 1 ELSE n2
                IN IF checks.super.made /\ Binary64Le(draws[n3], checks.super.chance)
                   THEN [tier |-> "super", used |-> n3]
                   ELSE [tier |-> "regular", used |-> n3]

-----------------------------------------------------------------------------
(* Resistances.js *)

ResistanceKeys == {"physicalResist", "energyResist", "statusResist"}

\* calculatePhysicalResistance with the constant over the sum in the curve
calculatePhysicalResistance_Inverted(rst, bs) ==
    [rst EXCEPT !.physicalResist =
        RMin(RMul(Rat(100, getStat(bs, "vit") + 100), Rat(9, 10)), Rat(9, 10))]

\* CharacterResistances.calculatePhysicalResistance
calculatePhysicalResistance(rst, bs) ==
    [rst EXCEPT !.physicalResist =
        RMin(Bonus(getStat(bs, "vit"), 100, Rat(9, 10)), Rat(9, 10))]

\* CharacterResistances.calculateEnergyResistance
calculateEnergyResistance(rst, bs) ==
    [rst EXCEPT !.energyResist =
        RMin(Bonus(getStat(bs, "aura"), 100, Rat(9, 10)), Rat(9, 10))]

\* CharacterResistances.calculateStatusResistance
calculateStatusResistance(rst, bs) ==
    LET vitContribution  == Bonus(getStat(bs, "vit"), 120, Rat(40, 100))
        wisContribution  == Bonus(getStat(bs, "wis"), 120, Rat(30, 100))
        auraContribution == Bonus(getStat(bs, "aura"), 120, Rat(15, 100))
    IN  [rst EXCEPT !.statusResist =
            RMin(RAdd(RAdd(vitContribution, wisContribution), auraContribution),
                 Rat(85, 100))]

\* CharacterResistances.updateAll
Resistances_updateAll(rst, bs) ==
    calculateStatusResistance(
        calculateEnergyResistance(calculatePhysicalResistance(rst, bs), bs), bs)

\* new CharacterResistances(attributes, baseStats)
NewResistances(bs) ==
    Resistances_updateAll(
        [physicalResist |-> RInt(0), energyResist |-> RInt(0),
         statusResist |-> RInt(0)], bs)

\* CharacterResistances.handleStatChange
Resistances_handleStatChange(rst, bs) == Resistances_updateAll(rst, bs)

\* CharacterResistances.getResistance(key)
getResistance(rst, key) ==
    CASE key = "physicalResist" -> rst.physicalResist
      [] key = "energyResist"   -> rst.energyResist
      [] key = "statusResist"   -> rst.statusResist
      [] OTHER                  -> RInt(0)

-----------------------------------------------------------------------------
(* Character.js *)

\* The components of a Character, with the calls made on them so far by the
\* method that is running.
Called(S, name) == [S EXCEPT !.calls = Append(@, name)]

\* this.resources.handleStatChange()
CallResources(S) ==
    Called([S EXCEPT !.res = Resources_handleStatChange(S.res, S.at, S.bs)],
           "resources.handleStatChange")

\* this.derivedStats.handleStatChange()
CallDerivedStats(S) ==
    Called([S EXCEPT !.der = DerivedStats_handleStatChange(S.der, S.at, S.bs, S.res)],
           "derivedStats.handleStatChange")

\* this.combatStats.handleStatChange()
CallCombatStats(S) ==
    Called([S EXCEPT !.cmb = CombatStats_handleStatChange(S.cmb, S.bs)],
           "combatStats.handleStatChange")

\* this.resistances.handleStatChange()
CallResistances(S) ==
    Called([S EXCEPT !.rst = Resistances_handleStatChange(S.rst, S.bs)],
           "resistances.handleStatChange")

\* the recompute calls without the last one
Recompute_NoResistances(S) == CallCombatStats(CallDerivedStats(CallResources(S)))

\* the recompute calls with DerivedStats ahead of Resources
Recompute_DerivedFirst(S) ==
    CallResistances(CallCombatStats(CallResources(CallDerivedStats(S))))

\* the four calls that end Character.levelUp and a successful allocateStatPoint
Recompute(S) == CallResistances(CallCombatStats(CallDerivedStats(CallResources(S))))

\* new Character({attributesConfig, baseStatsConfig})
NewCharacter(cfg) ==
    LET bs  == cfg.stats
        at  == [level |-> cfg.level, xp |-> cfg.xp,
                xpToNextLevel |-> cfg.xpToNextLevel,
                potential |-> cfg.potential, potentialCap |-> cfg.potentialCap,
                unallocatedStatPoints |-> cfg.unallocatedStatPoints,
                skillPoints |-> cfg.skillPoints, linked |-> TRUE]
        res == NewResources(at, bs)
    IN  [bs |-> bs, at |-> at, res |-> res,
         der |-> NewDerivedStats(at, bs, res),
         cmb |-> NewCombatStats(bs),
         rst |-> NewResistances(bs),
         calls |-> <<>>]

\* Character.levelUp
Character_levelUp(S) ==
    Recompute([S EXCEPT !.at.level = @ + 1, !.at.unallocatedStatPoints = @ + 5])

\* Character.allocateStatPoint: it has no return statement
Character_allocateStatPoint(S, statKey) ==
    IF S.at.unallocatedStatPoints > 0
    THEN LET r  == Attributes_allocateStatPoint(S.at, S.bs, statKey)
             s1 == Called([S EXCEPT !.at = r.at, !.bs = r.bs],
                          "attributes.allocateStatPoint")
         IN  [S |-> IF r.ret THEN Recompute(s1) ELSE s1, ret |-> JSUndefined]
    ELSE [S |-> S, ret |-> JSUndefined]

\* the mitigated damage with Math.floor for Math.round
mitigatedAmount_Floor(rst, amount, type) ==
    Max(0, RFloor(RMul(RInt(amount), RSub(RInt(1), getResistance(rst, type)))))

\* the damage Character.takeDamage passes on to the resources
mitigatedAmount(rst, amount, type) ==
    Max(0, RRound(RMul(RInt(amount), RSub(RInt(1), getResistance(rst, type)))))

\* Character.takeDamage: it has no return statement
Character_takeDamage(S, amount, type) ==
    LET s1 == Called(S, "resistances.getResistance")
        r  == Resources_takeDamage(s1.res, mitigatedAmount(s1.rst, amount, type))
    IN  [S |-> Called([s1 EXCEPT !.res = r.res], "resources.takeDamage"),
         ret |-> JSUndefined]

-----------------------------------------------------------------------------
(* Constructors of the dependent systems, called on their own *)

\* An argument of a constructor: an instance, or undefined or null when the
\* collaborator is missing. Only an instance is truthy.
Collaborators == {"instance", "undefined", "null"}

Truthy(arg) == arg = "instance"

\* The outcome of `new C(...)': the error thrown, with the fields of `this'
\* assigned before the throw, or the instance constructed.
Thrown(assigned) == [type |-> "error", val |-> assigned]

Constructed(obj) == [type |-> "object", val |-> obj]

\* the constructor guard with && for ||: with one collaborator missing the
\* fields are initialised before calculateMaxValues fails on the missing one
ConstructResources_GuardBoth(attributesArg, baseStatsArg, at, bs) ==
    IF ~Truthy(attributesArg) /\ ~Truthy(baseStatsArg)
    THEN Thrown({})
    ELSE IF ~Truthy(attributesArg) \/ ~Truthy(baseStatsArg)
    THEN Thrown({"attributes", "baseStats", "maxHealth", "maxKi", "maxStamina",
                 "health", "ki", "stamina", "fatigue"})
    ELSE Constructed(NewResources(at, bs))

\* new CharacterResources(attributes, baseStats)
ConstructResources(attributesArg, baseStatsArg, at, bs) ==
    IF ~Truthy(attributesArg) \/ ~Truthy(baseStatsArg)
    THEN Thrown({})
    ELSE Constructed(NewResources(at, bs))

\* new CharacterDerivedStats(attributes, baseStats, resources)
ConstructDerivedStats(attributesArg, baseStatsArg, resourcesArg, at, bs, res) ==
    IF ~Truthy(attributesArg) \/ ~Truthy(baseStatsArg) \/ ~Truthy(resourcesArg)
    THEN Thrown({})
    ELSE Constructed(NewDerivedStats(at, bs, res))

\* new CharacterCombatStats(attributes, baseStats, derivedStats): the third
\* argument defaults to null and is only stored
ConstructCombatStats(attributesArg, baseStatsArg, derivedStatsArg, bs) ==
    IF ~Truthy(attributesArg) \/ ~Truthy(baseStatsArg)
    THEN Thrown({})
    ELSE Constructed(NewCombatStats(bs))

\* new CharacterResistances(attributes, baseStats)
ConstructResistances(attributesArg, baseStatsArg, bs) ==
    IF ~Truthy(attributesArg) \/ ~Truthy(baseStatsArg)
    THEN Thrown({})
    ELSE Constructed(NewResistances(bs))

-----------------------------------------------------------------------------
(* Configurations a Character is constructed from *)

\* new Character(): every default of BaseStats.js and Attributes.js
DefaultConfig ==
    [stats |-> DefaultBaseStats, level |-> 1, xp |-> 0, xpToNextLevel |-> 100,
     potential |-> Rat(1, 10), potentialCap |-> Rat(1, 10),
     unallocatedStatPoints |-> 0, skillPoints |-> 0]

\* createTestCharacter({vit: 100, str: 50}) of character.test.js
TestConfig ==
    [DefaultConfig EXCEPT !.stats.ki = 100, !.stats.sta = 100,
                          !.stats.vit = 100, !.stats.str = 50]

\* a character with stat points to spend and room under its potential cap
PointsConfig ==
    [DefaultConfig EXCEPT !.unallocatedStatPoints = 2, !.skillPoints = 1,
                          !.xp = 90, !.potentialCap = Rat(1, 2)]

\* a weak character: small pools (health 12, ki 10, stamina 8)
SmallConfig ==
    [stats |-> [hp |-> 2, ki |-> 5, sta |-> 3, str |-> 1, vit |-> 0,
                tec |-> 2, wis |-> 0, aura |-> 0, agi |-> 0],
     level |-> 1, xp |-> 0, xpToNextLevel |-> 10,
     potential |-> Rat(1, 2), potentialCap |-> RInt(1),
     unallocatedStatPoints |-> 1, skillPoints |-> 0]

\* new CharacterAttributes({potential: 0.5, potentialCap: 0.1}): the
\* constructor stores both numbers as given
OverCapConfig ==
    [DefaultConfig EXCEPT !.potential = Rat(1, 2), !.potentialCap = Rat(1, 10)]

\* new CharacterBaseStats({hp: -5}): the constructor stores the number as given
NegativeStatConfig == [DefaultConfig EXCEPT !.stats.hp = -5]

\* new Character({stats: {str: -100}}): the constructor stores the number as
\* given
NegativeStrengthConfig == [DefaultConfig EXCEPT !.stats.str = -100]

CharacterConfigs == {DefaultConfig, TestConfig, PointsConfig, SmallConfig}

\* arguments the environment passes
StatKeyArgs == StatKeys \cup {"luck"}

ResistanceKeyArgs == ResistanceKeys \cup {"fire"}

DamageAmounts == {-5, 0, 7, 50, 1000}

ResourceAmounts == {-5, 0, 4, 20, 1000}

XPAmounts == {0, 10, 35, 250}

PotentialAmounts == {Rat(1, 20), RInt(1)}

StatsObjects ==
    { [vit |-> 0, agi |-> 0, hp |-> 1],
      [vit |-> 30, wis |-> -4, luck |-> 7],
      [tec |-> 150, aura |-> 40] }

-----------------------------------------------------------------------------
(* State machine *)

Cur == [bs |-> baseStats, at |-> attributes, res |-> resources,
        der |-> derivedStats, cmb |-> combatStats, rst |-> resistances,
        calls |-> <<>>]

CallRecord(op, key, amount, draws, ret) ==
    [op |-> op, key |-> key, amount |-> amount, draws |-> draws, ret |-> ret]

Components(S) ==
    /\ baseStats' = S.bs
    /\ attributes' = S.at
    /\ resources' = S.res
    /\ derivedStats' = S.der
    /\ combatStats' = S.cmb
    /\ resistances' = S.rst
    /\ calls' = S.calls

\* one call by the environment: the components after it and what it returned
Step(S, call) ==
    /\ steps < MaxSteps
    /\ Components(S)
    /\ last' = call
    /\ steps' = steps + 1

Start(S) ==
    /\ baseStats = S.bs
    /\ attributes = S.at
    /\ resources = S.res
    /\ derivedStats = S.der
    /\ combatStats = S.cmb
    /\ resistances = S.rst
    /\ calls = <<>>
    /\ last = CallRecord("new", "", 0, <<>>, JSUndefined)
    /\ steps = 0

Init == \E cfg \in CharacterConfigs : Start(NewCharacter(cfg))

(* character.* *)

CharacterLevelUp ==
    Step(Character_levelUp(Cur),
         CallRecord("Character.levelUp", "", 0, <<>>, JSUndefined))

CharacterAllocateStatPoint ==
    \E k \in StatKeyArgs :
        LET r == Character_allocateStatPoint(Cur, k)
        IN  Step(r.S, CallRecord("Character.allocateStatPoint", k, 0, <<>>, r.ret))

CharacterTakeDamage ==
    \E a \in DamageAmounts, t \in ResistanceKeyArgs :
        LET r == Character_takeDamage(Cur, a, t)
        IN  Step(r.S, CallRecord("Character.takeDamage", t, a, <<>>, r.ret))

(* character.attributes.* *)

AttributesAddXP ==
    \E a \in XPAmounts :
        Step([Cur EXCEPT !.at = addXP(attributes, a)],
             CallRecord("Attributes.addXP", "", a, <<>>, JSUndefined))

AttributesLevelUp ==
    Step([Cur EXCEPT !.at = Attributes_levelUp(attributes)],
         CallRecord("Attributes.levelUp", "", 0, <<>>, JSUndefined))

AttributesAllocateStatPoint ==
    \E k \in StatKeyArgs :
        LET r == Attributes_allocateStatPoint(attributes, baseStats, k)
        IN  Step([Cur EXCEPT !.at = r.at, !.bs = r.bs,
                            !.calls = IF r.called
                                      THEN <<"baseStats.increaseStat">> ELSE <<>>],
                 CallRecord("Attributes.allocateStatPoint", k, 0, <<>>,
                            JSBoolean(r.ret)))

AttributesUseSkillPoint ==
    LET r == useSkillPoint(attributes)
    IN  Step([Cur EXCEPT !.at = r.at],
             CallRecord("Attributes.useSkillPoint", "", 0, <<>>, JSBoolean(r.ret)))

AttributesIncreasePotential ==
    \E a \in PotentialAmounts :
        Step([Cur EXCEPT !.at = increasePotential(attributes, a)],
             CallRecord("Attributes.increasePotential", "", a, <<>>, JSUndefined))

(* character.baseStats.* *)

BaseStatsIncreaseStat ==
    \E k \in StatKeyArgs, a \in {-1, 0, 1, 3} :
        LET r == increaseStat(baseStats, k, a)
        IN  Step([Cur EXCEPT !.bs = r.bs],
                 CallRecord("BaseStats.increaseStat", k, a, <<>>, JSBoolean(r.ret)))

BaseStatsSetStats ==
    \E o \in StatsObjects :
        Step([Cur EXCEPT !.bs = setStats(baseStats, o)],
             CallRecord("BaseStats.setStats", "", 0, <<>>, JSUndefined))

(* character.resources.* *)

ResourceCall(op, a, r) ==
    Step([Cur EXCEPT !.res = r.res], CallRecord(op, "", a, <<>>, r.ret))

ResourcesTakeDamage ==
    \E a \in ResourceAmounts :
        ResourceCall("Resources.takeDamage", a, Resources_takeDamage(resources, a))

ResourcesRestoreHealth ==
    \E a \in ResourceAmounts :
        ResourceCall("Resources.restoreHealth", a, restoreHealth(resources, a))

ResourcesUseKi ==
    \E a \in ResourceAmounts :
        ResourceCall("Resources.useKi", a, useKi(resources, a))

ResourcesRestoreKi ==
    \E a \in ResourceAmounts :
        ResourceCall("Resources.restoreKi", a, restoreKi(resources, a))

ResourcesUseStamina ==
    \E a \in ResourceAmounts :
        ResourceCall("Resources.useStamina", a, useStamina(resources, a))

ResourcesRecoverStamina ==
    \E a \in ResourceAmounts :
        ResourceCall("Resources.recoverStamina", a, recoverStamina(resources, a))

ResourcesAddFatigue ==
    \E a \in ResourceAmounts :
        ResourceCall("Resources.addFatigue", a, addFatigue(resources, a))

ResourcesReduceFatigue ==
    \E a \in ResourceAmounts :
        ResourceCall("Resources.reduceFatigue", a, reduceFatigue(resources, a))

ResourcesHandleStatChange ==
    Step([Cur EXCEPT !.res = Resources_handleStatChange(resources, attributes, baseStats)],
         CallRecord("Resources.handleStatChange", "", 0, <<>>, JSUndefined))

(* character.derivedStats.*, character.combatStats.*, character.resistances.* *)

DerivedStatsHandleStatChange ==
    Step([Cur EXCEPT !.der = DerivedStats_handleStatChange(derivedStats, attributes,
                                                           baseStats, resources)],
         CallRecord("DerivedStats.handleStatChange", "", 0, <<>>, JSUndefined))

DerivedStatsHandleResourceChange ==
    Step([Cur EXCEPT !.der = handleResourceChange(derivedStats, resources)],
         CallRecord("DerivedStats.handleResourceChange", "", 0, <<>>, JSUndefined))

CombatStatsHandleStatChange ==
    Step([Cur EXCEPT !.cmb = CombatStats_handleStatChange(combatStats, baseStats)],
         CallRecord("CombatStats.handleStatChange", "", 0, <<>>, JSUndefined))

ResistancesHandleStatChange ==
    Step([Cur EXCEPT !.rst = Resistances_handleStatChange(resistances, baseStats)],
         CallRecord("Resistances.handleStatChange", "", 0, <<>>, JSUndefined))

\* tier names and damage types the accessors are called with
TierArgs == CritTierNames \cup {"OMEGA", "unknown", "constructor"}

DamageTypeArgs == {"physical", "energy", "ENERGY", "fire"}

CombatStatsGetCritMultiplier ==
    \E t \in TierArgs, d \in DamageTypeArgs :
        Step(Cur, [op |-> "CombatStats.getCritMultiplier", key |-> t, amount |-> 0,
                   draws |-> <<>>, ret |-> getCritMultiplier(combatStats, t, d),
                   damageType |-> d])

CombatStatsGetCritDefenseIgnore ==
    \E t \in TierArgs :
        Step(Cur, CallRecord("CombatStats.getCritDefenseIgnore", t, 0, <<>>,
                             getCritDefenseIgnore(combatStats, t)))

CombatStatsGetCritKnockback ==
    \E t \in TierArgs :
        Step(Cur, CallRecord("CombatStats.getCritKnockback", t, 0, <<>>,
                             getCritKnockback(combatStats, t)))

\* values Math.random() may return
Draws == {RInt(0), Rat(1, 20), Rat(99, 100)}

\* rollCriticalHit calls Math.random() at most four times
CombatStatsRollCriticalHit ==
    \E draws \in [1..4 -> Draws] :
        LET r == rollCriticalHit(combatStats, draws)
        IN  Step(Cur, CallRecord("CombatStats.rollCriticalHit", "", 0,
                                 SubSeq(draws, 1, r.used),
                                 [type |-> "string", val |-> r.tier]))


\* values Math.random() may return, as doubles: 0, 0.5 and 1 - 2^-52, the
\* highest
Draws64 ==
    {<<>>, Binary64(1, 2), LimbsTrim(LimbsSub(ShiftLeft(<<1>>, 64), ShiftLeft(<<1>>, 12), 1, 0))}

\* combatStats.rollCriticalHit() in binary64, on combat stats computed from
\* the current base stats
CombatStatsRollCriticalHit64 ==
    /\ steps < MaxSteps
    /\ \E cc \in {critChance64(baseStats)} :
       \E checks \in {tierChecks64(cc, combatStats)} :
       \E draws \in [1..4 -> Draws64] :
          LET r == rollCriticalHit64(cc, checks, draws)
          IN  Step(Cur, CallRecord("CombatStats.rollCriticalHit", "", 0,
                                   SubSeq(draws, 1, r.used),
                                   [type |-> "string", val |-> r.tier]))

(* constructors called with the character's attributes, base stats and
   resources, or with a collaborator missing *)

NewCharacterResources ==
    \E a \in Collaborators, b \in Collaborators :
        Step(Cur, CallRecord("new CharacterResources", "", 0, <<a, b>>,
                             ConstructResources(a, b, attributes, baseStats)))

NewCharacterDerivedStats ==
    \E a \in Collaborators, b \in Collaborators, r \in Collaborators :
        Step(Cur, CallRecord("new CharacterDerivedStats", "", 0, <<a, b, r>>,
                             ConstructDerivedStats(a, b, r, attributes, baseStats,
                                                   resources)))

NewCharacterCombatStats ==
    \E a \in Collaborators, b \in Collaborators, d \in Collaborators :
        Step(Cur, CallRecord("new CharacterCombatStats", "", 0, <<a, b, d>>,
                             ConstructCombatStats(a, b, d, baseStats)))

NewCharacterResistances ==
    \E a \in Collaborators, b \in Collaborators :
        Step(Cur, CallRecord("new CharacterResistances", "", 0, <<a, b>>,
                             ConstructResistances(a, b, baseStats)))


(* attributes.addXP, one statement of its loop at a time *)

\* thresholds and amounts that are not whole numbers as well
XPThresholds == {Rat(1, 2), RInt(1), RInt(4), RInt(10), RInt(100)}

FractionalXPAmounts == {RInt(0), Rat(1, 2), RInt(1), RInt(7), RInt(35), RInt(250)}

\* the call is in its while loop
InAddXP == last.op = "Attributes.addXP:while"

AddXPEnter ==
    /\ steps < MaxSteps
    /\ ~InAddXP
    /\ \E a \in FractionalXPAmounts :
          /\ attributes' = addXPAdd(attributes, a)
          /\ last' = CallRecord("Attributes.addXP:while", "", a, <<>>, JSUndefined)
    /\ steps' = steps + 1
    /\ UNCHANGED <<baseStats, resources, derivedStats, combatStats, resistances, calls>>

AddXPIterate ==
    /\ InAddXP
    /\ addXPTest(attributes)
    /\ attributes.level < MaxLevel
    /\ attributes' = addXPBody(attributes)
    /\ UNCHANGED <<baseStats, resources, derivedStats, combatStats, resistances,
                   calls, last, steps>>

AddXPReturn ==
    /\ InAddXP
    /\ ~addXPTest(attributes)
    /\ last' = [last EXCEPT !.op = "Attributes.addXP"]
    /\ UNCHANGED <<baseStats, attributes, resources, derivedStats, combatStats,
                   resistances, calls, steps>>

-----------------------------------------------------------------------------
(* Specifications *)

\* The Character and every call on it or on the components it exposes.
Next ==
    \/ CharacterLevelUp
    \/ CharacterAllocateStatPoint
    \/ CharacterTakeDamage
    \/ AttributesAddXP
    \/ AttributesAllocateStatPoint
    \/ AttributesIncreasePotential
    \/ BaseStatsSetStats
    \/ ResourcesRestoreHealth
    \/ ResourcesUseStamina

Spec == Init /\ [][Next]_vars

\* The resource pools of a Character: every mutator, and the changes of level
\* and stats that move the maxima.
NextResources ==
    \/ ResourcesTakeDamage
    \/ ResourcesRestoreHealth
    \/ ResourcesUseKi
    \/ ResourcesRestoreKi
    \/ ResourcesUseStamina
    \/ ResourcesRecoverStamina
    \/ ResourcesAddFatigue
    \/ ResourcesReduceFatigue
    \/ ResourcesHandleStatChange
    \/ BaseStatsIncreaseStat
    \/ BaseStatsSetStats
    \/ AttributesLevelUp

SpecResources == Init /\ [][NextResources]_vars

\* Critical hits: characters of every reach of critical chance.
CritTecValues == {0, 10, 143, 144, 294, 300, 444, 450, 475}

\* strengths at and above 0, for the physical multipliers
CritStrValues == {0, 150}

InitCrit ==
    \/ \E t \in CritTecValues :
          Start(NewCharacter([DefaultConfig EXCEPT !.stats.tec = t]))
    \/ \E s \in CritStrValues :
          Start(NewCharacter([DefaultConfig EXCEPT !.stats.str = s]))

NextCrit ==
    \/ CombatStatsRollCriticalHit
    \/ CombatStatsGetCritMultiplier
    \/ CombatStatsGetCritDefenseIgnore
    \/ CombatStatsGetCritKnockback
    \/ BaseStatsSetStats
    \/ CombatStatsHandleStatChange

SpecCrit == InitCrit /\ [][NextCrit]_vars


\* The roll in binary64, for the same characters.
NextCrit64 == CombatStatsRollCriticalHit64

SpecCrit64 == InitCrit /\ [][NextCrit64]_vars

\* Attributes and BaseStats on their own: an Attributes object may be
\* constructed without a BaseStats object to spend points on.
AttributesConfigs == CharacterConfigs \cup {OverCapConfig, NegativeStatConfig}

InitAttributes ==
    \E cfg \in AttributesConfigs, linked \in BOOLEAN :
        Start([NewCharacter(cfg) EXCEPT !.at.linked = linked])

NextAttributes ==
    \/ AttributesAddXP
    \/ AttributesLevelUp
    \/ AttributesAllocateStatPoint
    \/ AttributesUseSkillPoint
    \/ AttributesIncreasePotential
    \/ BaseStatsIncreaseStat
    \/ BaseStatsSetStats

SpecAttributes == InitAttributes /\ [][NextAttributes]_vars

\* Resistances: characters of small and large vitality, wisdom and aura, and
\* the stat increases the resistances are recomputed after.
ResistStatValues == {0, 120, 1000}

InitResistances ==
    \E v \in ResistStatValues, w \in ResistStatValues, a \in ResistStatValues :
        Start(NewCharacter([DefaultConfig EXCEPT !.stats.vit = v, !.stats.wis = w,
                                                 !.stats.aura = a]))

NextResistances ==
    \/ BaseStatsIncreaseStat
    \/ BaseStatsSetStats
    \/ ResistancesHandleStatChange

SpecResistances == InitResistances /\ [][NextResistances]_vars

\* The recomputes of the four dependent systems, on characters made stale
\* by changes of stats, level, potential and health.
NextRecompute ==
    \/ BaseStatsSetStats
    \/ AttributesLevelUp
    \/ AttributesIncreasePotential
    \/ ResourcesTakeDamage
    \/ ResourcesHandleStatChange
    \/ DerivedStatsHandleStatChange
    \/ DerivedStatsHandleResourceChange
    \/ CombatStatsHandleStatChange
    \/ ResistancesHandleStatChange
    \/ CharacterLevelUp

SpecRecompute == Init /\ [][NextRecompute]_vars

\* The constructors of the dependent systems on their own, for the stats of
\* each configuration and after stat changes.
NextConstruct ==
    \/ NewCharacterResources
    \/ NewCharacterDerivedStats
    \/ NewCharacterCombatStats
    \/ NewCharacterResistances
    \/ BaseStatsSetStats

SpecConstruct == Init /\ [][NextConstruct]_vars

\* The recomputes on characters of every configuration the constructor
\* accepts, a negative strength included.
InitDerived ==
    \E cfg \in CharacterConfigs \cup {NegativeStrengthConfig} :
        Start(NewCharacter(cfg))

SpecDerived == InitDerived /\ [][NextRecompute]_vars

\* CharacterAttributes with xp 0 and a threshold > 0, and addXP with its loop
\* taken one iteration at a time.
InitAddXP ==
    \E t \in XPThresholds :
        Start([NewCharacter(DefaultConfig) EXCEPT !.at.xp = RInt(0),
                                                   !.at.xpToNextLevel = t])

NextAddXP ==
    \/ AddXPEnter
    \/ AddXPIterate
    \/ AddXPReturn

SpecAddXP == InitAddXP /\ [][NextAddXP]_vars

-----------------------------------------------------------------------------
(* Claims *)

\* the step just taken was a call of `op'
Called_(op) == steps' = steps + 1 /\ last'.op = op

\* C1: after any sequence of resource mutators and handleStatChange calls,
\* with amounts below, inside and beyond the pools, health, ki and stamina
\* are each within [0, the maximum last computed] and fatigue within [0, 100].
C1_PoolsWithinBounds ==
    /\ 0 <= resources.health  /\ resources.health  <= resources.maxHealth
    /\ 0 <= resources.ki      /\ resources.ki      <= resources.maxKi
    /\ 0 <= resources.stamina /\ resources.stamina <= resources.maxStamina
    /\ 0 <= resources.fatigue /\ resources.fatigue <= 100

\* a takeDamage beyond the whole pool was made, and left the health at 0
C1_Witness ==
    /\ last.op = "Resources.takeDamage"
    /\ last.amount > resources.maxHealth
    /\ resources.health = 0

\* the i-th draw of a roll (2, which passes no check, if it was not drawn)
DrawAt(d, i) == IF i <= Len(d) THEN d[i] ELSE RInt(2)

\* the probability the claim gives for a tier check: cc is the critical
\* chance, t the tier's threshold and t0 the next lower threshold
ClaimedTierChance(cc, t, t0) ==
    RMin(RDiv(RAdd(RSub(cc, t), Rat(1, 100)), RSub(t, t0)), RInt(1))

C3_NormalIffFirstDrawAbove ==
    last.op = "CombatStats.rollCriticalHit" =>
        LET r1  == last.draws[1]
            eff == IF RLe(combatStats.critChance, RInt(1))
                   THEN combatStats.critChance ELSE RInt(1)
        IN  /\ (last.ret.val = "normal") <=> RLt(eff, r1)
            /\ last.ret.val \in {"normal", "regular", "super", "mega", "omega"}

\* a first draw equal to the effective critical chance gave a critical hit
C3_Witness ==
    /\ last.op = "CombatStats.rollCriticalHit"
    /\ last.draws[1] = combatStats.critChance
    /\ last.ret.val = "regular"

\* The formulas the derived values are specified by, on base stats bs,
\* attributes at and resources res.
ClaimedCurve(stat, k, cap) == RMul(Rat(stat, stat + k), cap)

ClaimedMaxHealth(bs, at) == bs.hp + at.level * 10 + bs.vit * 5

ClaimedMaxKi(bs, at) == bs.ki + at.level * 5 + bs.wis * 3 + bs.aura * 2

ClaimedMaxStamina(bs, at) == bs.sta + at.level * 5 + bs.vit * 2 + bs.agi * 3

ClaimedBasePL(bs, at) ==
    RFloor(RMul(Rat(18 * bs.str + 5 * bs.vit + 15 * bs.tec + 3 * bs.wis
                      + 4 * bs.aura + 10 * bs.agi, 10), at.potential))

ClaimedRatio(current, max) == IF max = 0 THEN RInt(0) ELSE Rat(current, max)

ClaimedEffectivePL(basePL, res) ==
    Max(0, FloorProduct(basePL,
        << RAdd(Rat(1, 2), RMul(Rat(1, 2), ClaimedRatio(res.health, res.maxHealth))),
           RAdd(Rat(4, 5), RMul(Rat(1, 5), ClaimedRatio(res.ki, res.maxKi))),
           RAdd(Rat(7, 10), RMul(Rat(3, 10), ClaimedRatio(res.stamina, res.maxStamina))),
           Rat(200 - res.fatigue, 200) >>))

ClaimedCritDamage(bs) == RAdd(Rat(3, 2), ClaimedCurve(bs.str, 200, Rat(7, 2)))

ClaimedEnergyCritDamage(bs) == RAdd(Rat(3, 2), ClaimedCurve(bs.tec, 200, Rat(7, 2)))

ClaimedPhysical(bs) == RMin(ClaimedCurve(bs.vit, 100, Rat(9, 10)), Rat(9, 10))

ClaimedEnergy(bs) == RMin(ClaimedCurve(bs.aura, 100, Rat(9, 10)), Rat(9, 10))

ClaimedStatus(bs) ==
    RMin(RAdd(RAdd(ClaimedCurve(bs.vit, 120, Rat(2, 5)),
                   ClaimedCurve(bs.wis, 120, Rat(3, 10))),
              ClaimedCurve(bs.aura, 120, Rat(3, 20))), Rat(17, 20))

ResourcesFresh(baseStats_, attributes_, resources_) ==
    /\ resources_.maxHealth = ClaimedMaxHealth(baseStats_, attributes_)
    /\ resources_.maxKi = ClaimedMaxKi(baseStats_, attributes_)
    /\ resources_.maxStamina = ClaimedMaxStamina(baseStats_, attributes_)

DerivedStatsFresh(baseStats_, attributes_, resources_, derivedStats_) ==
    /\ derivedStats_.basePL = ClaimedBasePL(baseStats_, attributes_)
    /\ derivedStats_.effectivePL =
          ClaimedEffectivePL(ClaimedBasePL(baseStats_, attributes_), resources_)
    /\ derivedStats_.movementRange = RFloor(RAdd(RInt(3), Rat(baseStats_.agi, 10)))
    /\ derivedStats_.turnOrder = RFloor(RAdd(RInt(baseStats_.agi), Rat(baseStats_.tec, 2)))

CombatStatsFresh(baseStats_, combatStats_) ==
    /\ combatStats_.accuracy =
          RAdd(RInt(50), RAdd(ClaimedCurve(baseStats_.tec, 60, RInt(50)),
                              ClaimedCurve(baseStats_.agi, 120, RInt(25))))
    /\ combatStats_.evasion =
          RAdd(RInt(35), RAdd(ClaimedCurve(baseStats_.agi, 80, RInt(60)),
                              ClaimedCurve(baseStats_.aura, 150, RInt(20))))
    /\ combatStats_.critChance = RAdd(Rat(1, 20), Rat(baseStats_.tec, 150))
    /\ combatStats_.critDamage = ClaimedCritDamage(baseStats_)
    /\ combatStats_.energyCritDamage = ClaimedEnergyCritDamage(baseStats_)
    /\ combatStats_.critTiers.normal.physMultiplier = RInt(1)
    /\ combatStats_.critTiers.regular.physMultiplier = ClaimedCritDamage(baseStats_)
    /\ combatStats_.critTiers.super.physMultiplier = ClaimedCritDamage(baseStats_)
    /\ combatStats_.critTiers.mega.physMultiplier =
          RMul(ClaimedCritDamage(baseStats_), Rat(3, 2))
    /\ combatStats_.critTiers.omega.physMultiplier =
          RMul(ClaimedCritDamage(baseStats_), RInt(2))
    /\ combatStats_.critTiers.normal.energyMultiplier = RInt(1)
    /\ combatStats_.critTiers.regular.energyMultiplier = ClaimedEnergyCritDamage(baseStats_)
    /\ combatStats_.critTiers.super.energyMultiplier = ClaimedEnergyCritDamage(baseStats_)
    /\ combatStats_.critTiers.mega.energyMultiplier =
          RMul(ClaimedEnergyCritDamage(baseStats_), Rat(3, 2))
    /\ combatStats_.critTiers.omega.energyMultiplier =
          RMul(ClaimedEnergyCritDamage(baseStats_), RInt(2))
    /\ combatStats_.knockback =
          RFloor(RAdd(RInt(3), ClaimedCurve(baseStats_.str, 50, RInt(12))))
    /\ combatStats_.pursuit =
          RFloor(RAdd(RInt(5), RAdd(ClaimedCurve(baseStats_.agi, 75, RInt(30)),
                                    ClaimedCurve(baseStats_.tec, 150, RInt(15)))))

ResistancesFresh(baseStats_, resistances_) ==
    /\ resistances_.physicalResist = ClaimedPhysical(baseStats_)
    /\ resistances_.energyResist = ClaimedEnergy(baseStats_)
    /\ resistances_.statusResist = ClaimedStatus(baseStats_)

\* every derived value of the character equals its formula
AllFresh(baseStats_, attributes_, resources_, derivedStats_, combatStats_, resistances_) ==
    /\ ResourcesFresh(baseStats_, attributes_, resources_)
    /\ DerivedStatsFresh(baseStats_, attributes_, resources_, derivedStats_)
    /\ CombatStatsFresh(baseStats_, combatStats_)
    /\ ResistancesFresh(baseStats_, resistances_)

\* a Character.allocateStatPoint that spent a point
AllocatedByCharacter ==
    /\ Called_("Character.allocateStatPoint")
    /\ attributes'.unallocatedStatPoints = attributes.unallocatedStatPoints - 1

\* C4: when Character.levelUp or a successful Character.allocateStatPoint
\* returns, every derived value (the three maxima, basePL, effectivePL,
\* movementRange, turnOrder, accuracy, evasion, critChance, critDamage,
\* energyCritDamage, the tier multipliers, knockback, pursuit and the three
\* resistances) equals its formula on the current base stats, level,
\* potential and resources.
C4_NoStaleValue ==
    [][(Called_("Character.levelUp") \/ AllocatedByCharacter) =>
          AllFresh(baseStats', attributes', resources', derivedStats',
                   combatStats', resistances')]_vars

\* levelUp returned on a character whose vitality had been set to 30 by
\* setStats, which recomputes nothing: the values were stale before the call
C4_Witness ==
    /\ last.op = "Character.levelUp"
    /\ baseStats.vit = 30
    /\ resistances.physicalResist = Rat(27, 130)

IsRecompute(c) ==
    c \in {"resources.handleStatChange", "derivedStats.handleStatChange",
           "combatStats.handleStatChange", "resistances.handleStatChange"}

RecomputeOrder ==
    <<"resources.handleStatChange", "derivedStats.handleStatChange",
      "combatStats.handleStatChange", "resistances.handleStatChange">>

\* C5: Character.levelUp and every successful Character.allocateStatPoint
\* call Resources.handleStatChange, DerivedStats.handleStatChange,
\* CombatStats.handleStatChange and Resistances.handleStatChange once each,
\* in that order, after the mutation (the first and the last recompute both
\* see the level and stats as mutated); a failed allocateStatPoint calls none.
C5_RecomputeOrder ==
    [][/\ (Called_("Character.levelUp") \/ AllocatedByCharacter) =>
            /\ SelectSeq(calls', IsRecompute) = RecomputeOrder
            /\ attributes' # attributes \/ baseStats' # baseStats
            /\ derivedStats'.effectivePL =
                  ClaimedEffectivePL(derivedStats'.basePL, resources')
            /\ ResourcesFresh(baseStats', attributes', resources')
            /\ ResistancesFresh(baseStats', resistances')
       /\ (Called_("Character.allocateStatPoint") /\ ~AllocatedByCharacter) =>
            /\ SelectSeq(calls', IsRecompute) = <<>>
            /\ baseStats' = baseStats
      ]_vars

\* an allocateStatPoint spent the last point and made the four recompute calls
C5_Witness ==
    /\ last.op = "Character.allocateStatPoint"
    /\ attributes.unallocatedStatPoints = 0
    /\ Len(calls) = 5

\* C6: useKi(amount) and useStamina(amount) with amount above the current
\* pool return false and change nothing: ki, stamina, fatigue, health and
\* the three maxima keep their values.
C6_InsufficientLeavesPool ==
    [][/\ (Called_("Resources.useKi") /\ last'.amount > resources.ki) =>
            (last'.ret.type = "boolean" /\ last'.ret.val = FALSE /\ resources' = resources)
       /\ (Called_("Resources.useStamina") /\ last'.amount > resources.stamina) =>
            (last'.ret.type = "boolean" /\ last'.ret.val = FALSE /\ resources' = resources)
      ]_vars

\* the example of the claim: ki = 10, useKi(20) returned false, ki is still 10
C6_Witness ==
    /\ last.op = "Resources.useKi"
    /\ last.amount = 20
    /\ last.ret.type = "boolean" /\ last.ret.val = FALSE
    /\ resources.ki = 10

\* C7: Character.allocateStatPoint called with unallocatedStatPoints = 0
\* returns false and leaves the nine base stats and unallocatedStatPoints
\* unchanged.
C7_NoPointsReturnsFalse ==
    [][(Called_("Character.allocateStatPoint") /\ attributes.unallocatedStatPoints = 0) =>
          /\ last'.ret.type = "boolean" /\ last'.ret.val = FALSE
          /\ baseStats' = baseStats
          /\ attributes'.unallocatedStatPoints = attributes.unallocatedStatPoints
      ]_vars

\* C8: Attributes.allocateStatPoint(key) returns false and changes neither
\* the base stats nor unallocatedStatPoints when unallocatedStatPoints <= 0,
\* when no BaseStats is linked, or when key is not one of the nine stat keys
\* (BaseStats.increaseStat is not called); otherwise it calls
\* BaseStats.increaseStat(key, 1), and spends exactly one point if and only
\* if the stat was increased.
C8_AllocateStatPoint ==
    [][Called_("Attributes.allocateStatPoint") =>
          LET k == last'.key
              refused == \/ attributes.unallocatedStatPoints <= 0
                         \/ ~attributes.linked
                         \/ k \notin {"hp", "ki", "sta", "str", "vit", "tec",
                                      "wis", "aura", "agi"}
          IN  /\ last'.ret.type = "boolean"
              /\ IF refused
                 THEN /\ last'.ret.val = FALSE
                      /\ baseStats' = baseStats
                      /\ attributes' = attributes
                      /\ calls' = <<>>
                 ELSE /\ calls' = <<"baseStats.increaseStat">>
                      /\ \/ /\ last'.ret.val = TRUE
                            /\ baseStats' = [baseStats EXCEPT ![k] = @ + 1]
                            /\ attributes' = [attributes EXCEPT
                                    !.unallocatedStatPoints = @ - 1]
                         \/ /\ last'.ret.val = FALSE
                            /\ baseStats' = baseStats
                            /\ attributes' = attributes
      ]_vars

\* a point was spent on a stat
C8_Witness ==
    /\ last.op = "Attributes.allocateStatPoint"
    /\ last.ret.type = "boolean" /\ last.ret.val = TRUE
    /\ calls = <<"baseStats.increaseStat">>

\* the threshold after i level-ups from the threshold thr
RECURSIVE ThresholdAfter(_, _)
ThresholdAfter(thr, i) ==
    IF i = 0 THEN thr ELSE (ThresholdAfter(thr, i - 1) * 12) \div 10

\* the xp left of x once the first i thresholds from thr are paid
RECURSIVE XPAfter(_, _, _)
XPAfter(x, thr, i) ==
    IF i = 0 THEN x ELSE XPAfter(x, thr, i - 1) - ThresholdAfter(thr, i - 1)

\* C9: one addXP(amount) adds amount to xp and fires every level-up it pays
\* for: with n the number of level-ups, each of the n thresholds (the i-th
\* being the threshold as updated by the level-ups before it) was reached
\* and subtracted, the xp left is below the next threshold, and level,
\* unallocatedStatPoints and skillPoints grew by n, 5n and n.
C9_AddXPFiresEveryLevelUp ==
    [][Called_("Attributes.addXP") =>
          LET n == attributes'.level - attributes.level
              x == attributes.xp + last'.amount
              thr == attributes.xpToNextLevel
          IN  /\ n >= 0
              /\ \A i \in 0..(n - 1) : XPAfter(x, thr, i) >= ThresholdAfter(thr, i)
              /\ XPAfter(x, thr, n) < ThresholdAfter(thr, n)
              /\ attributes' = [attributes EXCEPT
                    !.xp = XPAfter(x, thr, n),
                    !.level = @ + n,
                    !.unallocatedStatPoints = @ + 5 * n,
                    !.skillPoints = @ + n,
                    !.xpToNextLevel = ThresholdAfter(thr, n)]
      ]_vars

\* one grant took a character of level 1 to level 3 or beyond
C9_Witness ==
    /\ steps = 1
    /\ last.op = "Attributes.addXP"
    /\ attributes.level >= 3

\* C10: Character.takeDamage(amount, kind) with amount > 0 lowers health by
\* min(health, max(0, round(amount * (1 - resistance(kind))))), the
\* resistance being the character's current one for that kind, and changes
\* no other resource and no stat.
C10_TakeDamageMitigated ==
    [][(Called_("Character.takeDamage") /\ last'.amount > 0) =>
          LET r == CASE last'.key = "physicalResist" -> resistances.physicalResist
                     [] last'.key = "energyResist" -> resistances.energyResist
                     [] last'.key = "statusResist" -> resistances.statusResist
                     [] OTHER -> RInt(0)
              m == Max(0, RRound(RMul(RInt(last'.amount), RSub(RInt(1), r))))
          IN  /\ resources' = [resources EXCEPT !.health = @ - Min(@, m)]
              /\ UNCHANGED <<baseStats, attributes, derivedStats, combatStats,
                             resistances>>
      ]_vars

\* the test of character.test.js: 50 physical damage against a resistance
\* of 0.45 (vit 100) takes round(27.5) = 28 health
C10_Witness ==
    /\ last.op = "Character.takeDamage"
    /\ last.amount = 50
    /\ last.key = "physicalResist"
    /\ resistances.physicalResist = Rat(9, 20)
    /\ resources.health = resources.maxHealth - 28

\* C11: once Character.takeDamage has left health <= 0 the character is
\* defeated, and defeat is terminal: no later operation (restoreHealth,
\* levelUp, ...) takes the character out of it. The character keeps no record
\* of defeat other than its health, so leaving the defeated state is health
\* rising above 0 again.
C11_DefeatIsTerminal ==
    [][(last.op = "Character.takeDamage" /\ resources.health <= 0) =>
          resources'.health <= 0]_vars

\* C12: in every reachable state, after construction from any configuration
\* and after any sequence of increasePotential calls, potential is at most
\* potentialCap, and increasePotential(amount) sets potential to
\* min(potential + amount, potentialCap).
C12_PotentialWithinCap ==
    /\ [](RLe(attributes.potential, attributes.potentialCap))
    /\ [][Called_("Attributes.increasePotential") =>
            attributes'.potential =
                RMin(RAdd(attributes.potential, last'.amount), attributes.potentialCap)]_vars

C13_HandleStatChangeCapsOnly ==
    [][Called_("Resources.handleStatChange") =>
          LET newMaxHealth == baseStats.hp + attributes.level * 10 + baseStats.vit * 5
              newMaxKi == baseStats.ki + attributes.level * 5 + baseStats.wis * 3
                            + baseStats.aura * 2
              newMaxStamina == baseStats.sta + attributes.level * 5 + baseStats.vit * 2
                                 + baseStats.agi * 3
          IN  /\ resources' =
                    [maxHealth |-> newMaxHealth, maxKi |-> newMaxKi,
                     maxStamina |-> newMaxStamina,
                     health |-> Min(resources.health, newMaxHealth),
                     ki |-> Min(resources.ki, newMaxKi),
                     stamina |-> Min(resources.stamina, newMaxStamina),
                     fatigue |-> resources.fatigue]
              /\ resources'.health <= resources.health
              /\ resources'.health < resources.health => resources.health > newMaxHealth
              /\ UNCHANGED <<baseStats, attributes>>
      ]_vars

\* handleStatChange after a level-up: the maxima grew, the pools stayed
C13_Witness ==
    /\ last.op = "Resources.handleStatChange"
    /\ attributes.level = 2
    /\ resources.maxHealth = baseStats.hp + 20 + baseStats.vit * 5
    /\ resources.health = resources.maxHealth - 10

\* C14: after any recompute and for any STR >= 0, the physical tier
\* multipliers satisfy normal < regular <= super < mega < omega, and the
\* energy multipliers satisfy the same ordering for any TEC.
C14_MultiplierOrder ==
    LET t == combatStats.critTiers
    IN  /\ RLt(t.normal.physMultiplier, t.regular.physMultiplier)
        /\ RLe(t.regular.physMultiplier, t.super.physMultiplier)
        /\ RLt(t.super.physMultiplier, t.mega.physMultiplier)
        /\ RLt(t.mega.physMultiplier, t.omega.physMultiplier)
        /\ RLt(t.normal.energyMultiplier, t.regular.energyMultiplier)
        /\ RLe(t.regular.energyMultiplier, t.super.energyMultiplier)
        /\ RLt(t.super.energyMultiplier, t.mega.energyMultiplier)
        /\ RLt(t.mega.energyMultiplier, t.omega.energyMultiplier)

\* the multipliers of a character of strength 0 after a recompute:
\* 1 < 1.5 <= 1.5 < 2.25 < 3
C14_Witness ==
    /\ last.op = "CombatStats.handleStatChange"
    /\ baseStats.str = 0
    /\ combatStats.critTiers.regular.physMultiplier = Rat(3, 2)
    /\ combatStats.critTiers.mega.physMultiplier = Rat(9, 4)
    /\ combatStats.critTiers.omega.physMultiplier = RInt(3)

\* the critical tier table for the critical damages cd and ecd
ClaimedCritTiers(cd, ecd) ==
    [normal  |-> [threshold |-> RInt(0), physMultiplier |-> RInt(1),
                  energyMultiplier |-> RInt(1), defenseIgnore |-> RInt(0),
                  guaranteedKnockback |-> FALSE],
     regular |-> [threshold |-> RInt(1), physMultiplier |-> cd,
                  energyMultiplier |-> ecd, defenseIgnore |-> RInt(0),
                  guaranteedKnockback |-> FALSE],
     super   |-> [threshold |-> Rat(101, 100), physMultiplier |-> cd,
                  energyMultiplier |-> ecd, defenseIgnore |-> Rat(1, 4),
                  guaranteedKnockback |-> FALSE],
     mega    |-> [threshold |-> Rat(201, 100), physMultiplier |-> RMul(cd, Rat(3, 2)),
                  energyMultiplier |-> RMul(ecd, Rat(3, 2)), defenseIgnore |-> Rat(1, 4),
                  guaranteedKnockback |-> FALSE],
     omega   |-> [threshold |-> Rat(301, 100), physMultiplier |-> RMul(cd, RInt(2)),
                  energyMultiplier |-> RMul(ecd, RInt(2)), defenseIgnore |-> Rat(1, 2),
                  guaranteedKnockback |-> TRUE]]

\* C15: after construction and after every recompute the critical tier
\* table is the specified one: thresholds 0 / 1.0 / 1.01 / 2.01 / 3.01,
\* defense-ignore 0 / 0 / 0.25 / 0.25 / 0.50, guaranteed knockback for omega
\* only, multipliers normal = 1, regular = super = critDamage,
\* mega = critDamage * 1.5, omega = critDamage * 2, and the energy
\* multipliers the same way from energyCritDamage.
C15_CritTierTable ==
    /\ combatStats.critTiers =
          ClaimedCritTiers(combatStats.critDamage, combatStats.energyCritDamage)
    /\ RLe(Rat(3, 2), combatStats.critDamage)
    /\ RLe(Rat(3, 2), combatStats.energyCritDamage)
    /\ last.op \in {"new", "CombatStats.handleStatChange"} =>
          /\ combatStats.critDamage = ClaimedCritDamage(baseStats)
          /\ combatStats.energyCritDamage = ClaimedEnergyCritDamage(baseStats)

\* the table after a recompute at TEC 150: energyCritDamage 3, mega 4.5
C15_Witness ==
    /\ last.op = "CombatStats.handleStatChange"
    /\ baseStats.tec = 150
    /\ combatStats.energyCritDamage = RInt(3)
    /\ combatStats.critTiers.mega.energyMultiplier = Rat(9, 2)
    /\ combatStats.critTiers.omega.guaranteedKnockback

\* C16: for every TEC >= 0, critChance = 0.05 + TEC/150 without an upper
\* bound, effectiveCritChance = min(critChance, 1.0), and canSuperCrit,
\* canMegaCrit and canOmegaCrit are true exactly when critChance >= 1.01,
\* 2.01 and 3.01 (TEC 300: super and mega but not omega; TEC 475: omega).
C16_CritChanceAndReach ==
    LET cc == combatStats.critChance
    IN  /\ last.op \in {"new", "CombatStats.handleStatChange"} =>
              cc = RAdd(Rat(1, 20), Rat(baseStats.tec, 150))
        /\ effectiveCritChance(combatStats) = (IF RLe(cc, RInt(1)) THEN cc ELSE RInt(1))
        /\ tierReachable(combatStats, "super") <=> RLe(Rat(101, 100), cc)
        /\ tierReachable(combatStats, "mega") <=> RLe(Rat(201, 100), cc)
        /\ tierReachable(combatStats, "omega") <=> RLe(Rat(301, 100), cc)
        /\ cc = Rat(41, 20) =>
              /\ tierReachable(combatStats, "super")
              /\ tierReachable(combatStats, "mega")
              /\ ~tierReachable(combatStats, "omega")

\* TEC 475: critChance 193/60 > 3.01, capped at 1 only in effectiveCritChance
C16_Witness ==
    /\ last.op = "CombatStats.handleStatChange"
    /\ baseStats.tec = 475
    /\ combatStats.critChance = Rat(193, 60)
    /\ effectiveCritChance(combatStats) = RInt(1)
    /\ tierReachable(combatStats, "omega")

\* the tier names the accessors recognise, in the letter cases they are
\* called with
RecognizedTierArgs == {"normal", "regular", "super", "mega", "omega", "OMEGA"}

\* C17: for an unrecognized tier name getCritMultiplier returns 1.0,
\* getCritDefenseIgnore returns 0 and getCritKnockback returns false, without
\* raising and without changing any state.
C17_UnknownTierFallback ==
    [][steps' = steps + 1 /\ last'.key \notin RecognizedTierArgs =>
          /\ last'.op = "CombatStats.getCritMultiplier" =>
                /\ last'.ret.type = "number" /\ last'.ret.val = RInt(1)
                /\ UNCHANGED <<baseStats, attributes, resources, derivedStats,
                               combatStats, resistances>>
          /\ last'.op = "CombatStats.getCritDefenseIgnore" =>
                /\ last'.ret.type = "number" /\ last'.ret.val = RInt(0)
                /\ UNCHANGED <<baseStats, attributes, resources, derivedStats,
                               combatStats, resistances>>
          /\ last'.op = "CombatStats.getCritKnockback" =>
                /\ last'.ret.type = "boolean" /\ last'.ret.val = FALSE
                /\ UNCHANGED <<baseStats, attributes, resources, derivedStats,
                               combatStats, resistances>>
      ]_vars

\* C18: for all VIT, WIS, AURA >= 0 the physical and energy resistances lie
\* in [0, 0.90] and the status resistance in [0, 0.85], and each resistance
\* is monotonically non-decreasing in each of its input stats: recomputed
\* after an increase of a stat, no resistance is below its value before.
C18_ResistancesBoundedMonotone ==
    /\ [](/\ RLe(RInt(0), resistances.physicalResist)
          /\ RLe(resistances.physicalResist, Rat(9, 10))
          /\ RLe(RInt(0), resistances.energyResist)
          /\ RLe(resistances.energyResist, Rat(9, 10))
          /\ RLe(RInt(0), resistances.statusResist)
          /\ RLe(resistances.statusResist, Rat(17, 20)))
    /\ [][(/\ Called_("Resistances.handleStatChange")
           /\ steps = 1
           /\ last.op = "BaseStats.increaseStat") =>
              /\ RLe(resistances.physicalResist, resistances'.physicalResist)
              /\ RLe(resistances.energyResist, resistances'.energyResist)
              /\ RLe(resistances.statusResist, resistances'.statusResist)
              /\ (last.key = "vit" /\ last.amount > 0) =>
                    /\ RLt(resistances.physicalResist, resistances'.physicalResist)
                    /\ RLt(resistances.statusResist, resistances'.statusResist)
              /\ (last.key = "aura" /\ last.amount > 0) =>
                    RLt(resistances.energyResist, resistances'.energyResist)
      ]_vars

\* the resistances recomputed after vitality rose from 1000 to 1003: the
\* physical resistance 9027/11030 is above 9/11 and below 0.90
C18_Witness ==
    /\ steps = 2
    /\ last.op = "Resistances.handleStatChange"
    /\ baseStats.vit = 1003
    /\ resistances.physicalResist = Rat(9027, 11030)

\* C19: a full recompute (Resources.handleStatChange, DerivedStats.updateAll,
\* CombatStats.updateAll, Resistances.updateAll, or the whole cascade) called
\* again with no mutation in between changes no stored value: the snapshot
\* a recompute leaves is the snapshot a second call of it would leave.
C19_RecomputeIdempotent ==
    [][/\ Called_("Resources.handleStatChange") =>
            Resources_handleStatChange(resources', attributes', baseStats') = resources'
       /\ Called_("DerivedStats.handleStatChange") =>
            DerivedStats_updateAll(derivedStats', attributes', baseStats', resources')
               = derivedStats'
       /\ Called_("CombatStats.handleStatChange") =>
            CombatStats_updateAll(combatStats', baseStats') = combatStats'
       /\ Called_("Resistances.handleStatChange") =>
            Resistances_updateAll(resistances', baseStats') = resistances'
       /\ Called_("Character.levelUp") =>
            LET again == Recompute([bs |-> baseStats', at |-> attributes',
                                    res |-> resources', der |-> derivedStats',
                                    cmb |-> combatStats', rst |-> resistances',
                                    calls |-> <<>>])
            IN  /\ again.bs = baseStats'
                /\ again.at = attributes'
                /\ again.res = resources'
                /\ again.der = derivedStats'
                /\ again.cmb = combatStats'
                /\ again.rst = resistances'
      ]_vars

\* Resources.handleStatChange on a character whose stats had been lowered:
\* the recompute capped health at the new maximum 11
C19_Witness ==
    /\ last.op = "Resources.handleStatChange"
    /\ baseStats.hp = 1
    /\ baseStats.vit = 0
    /\ resources.maxHealth = 11
    /\ resources.health = 11

\* the arguments of a constructor call that are missing
Missing(args, required) == \E i \in required : args[i] \in {"undefined", "null"}

\* C21: constructing CharacterResources, CharacterCombatStats or
\* CharacterResistances without attributes or baseStats, or
\* CharacterDerivedStats without attributes, baseStats or resources, raises
\* an error before any field is assigned, so no instance exists; with every
\* required collaborator present the instance is constructed, and
\* CharacterCombatStats is constructed normally without derivedStats.
C21_MissingCollaboratorThrows ==
    [][steps' = steps + 1 =>
          LET op == last'.op
              args == last'.draws
              required == IF op = "new CharacterDerivedStats" THEN {1, 2, 3} ELSE {1, 2}
          IN  op \in {"new CharacterResources", "new CharacterDerivedStats",
                      "new CharacterCombatStats", "new CharacterResistances"} =>
                /\ UNCHANGED <<baseStats, attributes, resources, derivedStats,
                               combatStats, resistances>>
                /\ IF Missing(args, required)
                   THEN last'.ret.type = "error" /\ last'.ret.val = {}
                   ELSE /\ last'.ret.type = "object"
                        /\ op = "new CharacterResources" =>
                              /\ last'.ret.val.maxHealth =
                                    ClaimedMaxHealth(baseStats, attributes)
                              /\ last'.ret.val.health = last'.ret.val.maxHealth
                        /\ op = "new CharacterCombatStats" =>
                              last'.ret.val.critTiers =
                                  ClaimedCritTiers(ClaimedCritDamage(baseStats),
                                                   ClaimedEnergyCritDamage(baseStats))
      ]_vars

\* new CharacterResources(undefined, baseStats) threw with nothing assigned
C21_Witness ==
    /\ last.op = "new CharacterResources"
    /\ last.draws = <<"undefined", "instance">>
    /\ last.ret.type = "error"
    /\ last.ret.val = {}

\* C22: a resource change triggers the resource-only recompute: after
\* Character.takeDamage changes health, effectivePL equals
\* max(0, floor(basePL * modifier)) for the current health, ki, stamina and
\* fatigue, while basePL, movementRange and turnOrder are left unchanged.
C22_TakeDamageRecomputesEffectivePL ==
    [][(Called_("Character.takeDamage") /\ resources'.health # resources.health) =>
          /\ derivedStats'.effectivePL =
                ClaimedEffectivePL(derivedStats'.basePL, resources')
          /\ derivedStats'.basePL = derivedStats.basePL
          /\ derivedStats'.movementRange = derivedStats.movementRange
          /\ derivedStats'.turnOrder = derivedStats.turnOrder
      ]_vars


\* C23: a level change triggers the full recompute: after an Attributes.addXP
\* that raises the level of a Character's attributes, maxHealth, maxKi and
\* maxStamina and the derived snapshots equal their formulas for the new
\* level.
C23_LevelChangeRecomputes ==
    [][(Called_("Attributes.addXP") /\ attributes'.level > attributes.level) =>
          /\ resources'.maxHealth = ClaimedMaxHealth(baseStats', attributes')
          /\ resources'.maxKi = ClaimedMaxKi(baseStats', attributes')
          /\ resources'.maxStamina = ClaimedMaxStamina(baseStats', attributes')
          /\ DerivedStatsFresh(baseStats', attributes', resources', derivedStats')
      ]_vars


\* C24: useStamina(amount) with 0 < amount <= stamina returns true, lowers
\* stamina by exactly amount and raises fatigue by ceil(amount * 0.1), the
\* least integer f with 10 f >= amount, clamped at 100; health, ki and the
\* maxima keep their values.
C24_UseStaminaSuccess ==
    [][(/\ Called_("Resources.useStamina")
        /\ last'.amount > 0
        /\ last'.amount <= resources.stamina) =>
          \E f \in 0..last'.amount :
              /\ 10 * f >= last'.amount
              /\ 10 * (f - 1) < last'.amount
              /\ last'.ret = JSBoolean(TRUE)
              /\ resources'.stamina = resources.stamina - last'.amount
              /\ resources'.fatigue =
                    (IF resources.fatigue + f > 100 THEN 100 ELSE resources.fatigue + f)
              /\ resources' = [resources EXCEPT !.stamina = resources'.stamina,
                                                !.fatigue = resources'.fatigue]
      ]_vars

\* a successful useStamina(20) whose fatigue was clamped at 100
C24_Witness ==
    /\ last.op = "Resources.useStamina"
    /\ last.amount = 20
    /\ last.ret = JSBoolean(TRUE)
    /\ resources.fatigue = 100
    /\ resources.stamina = resources.maxStamina - 20


\* the eight mutators of CharacterResources
ResourceMutators ==
    {"Resources.takeDamage", "Resources.restoreHealth", "Resources.useKi",
     "Resources.restoreKi", "Resources.useStamina", "Resources.recoverStamina",
     "Resources.addFatigue", "Resources.reduceFatigue"}

\* C25: invalid-argument calls leave the state unchanged: a resource mutator
\* called with amount <= 0, and BaseStats.increaseStat called with an
\* unrecognized key or amount <= 0 (which returns false), change no resource
\* value, maximum or base stat.
C25_InvalidArgumentsChangeNothing ==
    [][(/\ steps' = steps + 1
        /\ \/ last'.op \in ResourceMutators /\ last'.amount <= 0
           \/ /\ last'.op = "BaseStats.increaseStat"
              /\ (last'.key \notin StatKeys \/ last'.amount <= 0)) =>
          /\ resources' = resources
          /\ baseStats' = baseStats
          /\ last'.op = "BaseStats.increaseStat" => last'.ret = JSBoolean(FALSE)
      ]_vars

\* a negative damage amount on a damaged character, which has not healed
C25_Witness ==
    /\ last.op = "Resources.takeDamage"
    /\ last.amount = -5
    /\ resources.health < resources.maxHealth
    /\ steps = 2


\* C27: from xp >= 0 and xpToNextLevel > 0, addXP of an amount >= 0
\* terminates and returns with 0 <= xp < xpToNextLevel, and across level-ups
\* xpToNextLevel never decreases and stays > 0. Termination is stated by its
\* variant: every iteration of the loop lowers xp.
C27_AddXPTerminates ==
    /\ [](last.op = "Attributes.addXP" =>
            /\ RLe(RInt(0), attributes.xp)
            /\ RLt(attributes.xp, attributes.xpToNextLevel))
    /\ [][attributes'.level > attributes.level =>
            /\ RLe(attributes.xpToNextLevel, attributes'.xpToNextLevel)
            /\ RLt(RInt(0), attributes'.xpToNextLevel)
            /\ RLt(attributes'.xp, attributes.xp)
         ]_vars


\* the sum of the nine base stats
RECURSIVE SumOfStats(_, _)
SumOfStats(bs, keys) ==
    IF keys = {} THEN 0
    ELSE LET k == CHOOSE x \in keys : TRUE
         IN  bs[k] + SumOfStats(bs, keys \ {k})

\* C28: across Attributes.allocateStatPoint and Character.allocateStatPoint
\* calls, successful or not, the sum of the nine base stats plus
\* unallocatedStatPoints stays constant, unallocatedStatPoints does not
\* become negative, and a successful call raises exactly one stat by exactly
\* 1 (an unsuccessful one changes neither the stats nor the points).
C28_PointsConserved ==
    [][(Called_("Attributes.allocateStatPoint") \/ Called_("Character.allocateStatPoint")) =>
          LET points  == attributes.unallocatedStatPoints
              points_ == attributes'.unallocatedStatPoints
              spent   == points_ # points \/ baseStats' # baseStats
          IN  /\ SumOfStats(baseStats', StatKeys) + points_
                    = SumOfStats(baseStats, StatKeys) + points
              /\ points >= 0 => points_ >= 0
              /\ spent =>
                    /\ points_ = points - 1
                    /\ \E k \in StatKeys :
                          baseStats' = [baseStats EXCEPT ![k] = @ + 1]
              /\ last'.op = "Attributes.allocateStatPoint" =>
                    (last'.ret = JSBoolean(TRUE) <=> spent)
      ]_vars

\* the second of two points spent on STR through Character.allocateStatPoint
C28_Witness ==
    /\ last.op = "Character.allocateStatPoint"
    /\ last.key = "str"
    /\ attributes.unallocatedStatPoints = 0
    /\ baseStats.str = 12


\* C29: Character.levelUp applies the level-up step of Attributes.levelUp to
\* the progression state: level + 1, unallocatedStatPoints + 5,
\* skillPoints + 1 and xpToNextLevel = floor(xpToNextLevel * 1.2).
C29_LevelUpSameStep ==
    [][Called_("Character.levelUp") =>
          /\ attributes'.level = attributes.level + 1
          /\ attributes'.unallocatedStatPoints = attributes.unallocatedStatPoints + 5
          /\ attributes'.skillPoints = attributes.skillPoints + 1
          /\ attributes'.xpToNextLevel = (attributes.xpToNextLevel * 12) \div 10
      ]_vars


\* C30: immediately after a full or a resource-only recompute of DerivedStats,
\* with health, ki and stamina in [0, max], fatigue in [0, 100] and
\* potential >= 0, 0 <= effectivePL <= basePL, and effectivePL = basePL when
\* the three pools are at their maxima and fatigue is 0.
C30_EffectivePLWithinBasePL ==
    (/\ last.op \in {"DerivedStats.handleStatChange", "DerivedStats.handleResourceChange"}
     /\ resources.health \in 0..resources.maxHealth
     /\ resources.ki \in 0..resources.maxKi
     /\ resources.stamina \in 0..resources.maxStamina
     /\ resources.fatigue \in 0..100
     /\ RLe(RInt(0), attributes.potential)) =>
        /\ 0 <= derivedStats.effectivePL
        /\ derivedStats.effectivePL <= derivedStats.basePL
        /\ (/\ resources.health = resources.maxHealth
            /\ resources.ki = resources.maxKi
            /\ resources.stamina = resources.maxStamina
            /\ resources.fatigue = 0) =>
              derivedStats.effectivePL = derivedStats.basePL


\* C26: whenever critChance >= 1.01 (canSuperCrit is true), rollCriticalHit
\* never returns 'regular', for any draws: the super check's probability
\* (critChance - 1.01 + 0.01) / (1.01 - 1.0) is at least 1 from the threshold
\* on, so the tier is super, mega or omega.
C26_NeverRegularAboveSuper ==
    (/\ last.op = "CombatStats.rollCriticalHit"
     /\ RLe(Rat(101, 100), combatStats.critChance)) =>
        last.ret.val # "regular"
====
